---- MODULE Spec2Model ----
(***************************************************************************)
(* A model of the TestCraft-AI test-case generation system: the hybrid     *)
(* knowledge store (relational + vector index), the usage statistics, the  *)
(* step generator, the request workflow, the inference-service client and  *)
(* the hierarchical classifier.  Each component has its own specification  *)
(* over the shared variables; a component's specification leaves the other *)
(* components' variables unchanged.                                        *)
(***************************************************************************)
EXTENDS Integers, Sequences, FiniteSets, TLC

VARIABLES
    \* ---- knowledge store (src/src/core/knowledge_base.py)
    relational_db,   \* id -> KnowledgeRecord or NoRecord (the session's rows)
    vector_db,       \* collection name -> set of ids held by that collection
    collections,     \* names of the collections that exist in the vector store
    kb_last,         \* the last store call: operation, id, failure point, raised
    import_pc,       \* "idle" | "importing": import_knowledge is inside its loop
    \* ---- usage statistics (record_usage) on the asyncio event loop
    loop_owner,      \* the caller whose synchronous code holds the event loop, or 0
    usage_pc,        \* caller -> "idle" | "read" (record fetched, not yet committed)
    usage_local,     \* caller -> the call's id, success flag and fetched record
    usage_log,       \* the calls in the order in which they committed
    \* ---- test-case generation (src/src/generator/case_generator.py)
    gen_pc,          \* "start" | "steps" | "integrated" | "done" | "raised"
    gen_input,       \* the arguments of generate_test_case and the service's answer
    test_steps,      \* the local test_steps of generate_test_case
    integrated,      \* the list integrate returned (integrated_constraints)
    test_case,       \* the TestCase returned, or NoTestCase
    \* ---- request workflow (src/src/workflow/main_workflow.py)
    task_handlers,   \* the handler tasks start() created
    task_queue,      \* asyncio.Queue of the submitted requests
    unfinished_tasks,\* the queue's count of put items without task_done
    handler_pc,      \* per handler: "none" | "get" | "process" | "notify"
    handler_request, \* per handler: the request it took from the queue
    task_results,    \* request id -> GenerationResult, or NoResult
    accepted,        \* the number of requests submit_request accepted
    take_log,        \* the queue gets in order: which request, which handler
    \* ---- classifier (src/src/core/hierarchical_classifier.py)
    cls_pc,          \* "idle" | "start" | "rule_scored" | "enhanced" | "validated" | "returned" | "raised"
    cls_input,       \* the keyword hits of the requirement and the kind of spec_analysis
    classification,  \* the classification dict handed from phase to phase
    cls_ai,          \* the inference service in this call: "none" | "skipped" | "failed" | "answered"
    cls_kb,          \* the store search in this call: "none" | "skipped" | "raised" | "empty" | "hits"
    cls_result,      \* the ClassificationResult returned, or NoClassificationResult
    \* ---- inference-service client (src/src/api/deepseek_client.py)
    call_pc,         \* chat_completion: "idle" | "send" | "awaiting" | "sleeping" | "returned" | "raised"
    retry,           \* the loop variable of chat_completion
    requests_sent,   \* the number of requests posted by this call
    responses,       \* what each request was answered with, in order
    waits,           \* the seconds slept after each answer (0: none)
    call_outcome,    \* "none" | "data" | the name of the exception raised
    \* ---- batch_chat_completion (src/src/api/deepseek_client.py)
    batch_pc,        \* "idle" | "gathering" | "returned"
    prompts,         \* the number of prompts of the batch
    prompt_pc,       \* per prompt task: "none" | "pending" | "inflight" | "ok" | "failed"
    semaphore,       \* the value of the asyncio.Semaphore
    issued,          \* the prompts in the order their chat_completion call began
    processed_results, \* the list batch_chat_completion returns
    \* ---- knowledge search (src/src/core/knowledge_base.py)
    search_pc,       \* "idle" | "start" | "querying" | "returned" | "raised"
    search_input,    \* top_k, the embedder in use, and what the vector store answers
    search_next,     \* the index of the next collection of collection_names
    results,         \* the local list `results`, then the list returned
    \* ---- template selection (src/src/generator/template_selector.py)
    sel_pc,          \* "idle" | "start" | "filtered" | "scored" | "done"
    sel_input,       \* self.templates in dict order, as they relate to the request
    candidate_templates,\* the indexes of the candidate templates, in dict order
    scored_templates,\* the list of (template, score) pairs
    sel_result,      \* what select_template returned
    sel_previous,    \* what the previous call with the same arguments returned
    \* ---- constraint coverage (constraint_integrator.py, main_workflow.py)
    cov_pc,          \* "idle" | "start" | "calculated" | "evaluated" | "appended" | "recalculated"
    cov_steps,       \* test_steps: the step sequence of the test case
    cov_other,       \* the words of the other sections of the test case
    cov_constraints, \* the constraint list
    cov_result,      \* what calculate_constraint_coverage returned
    cov_before,      \* what it returned before the step was appended
    sub_score,       \* what _evaluate_constraint_coverage returned, in hundredths
    \* ---- quality evaluation (src/src/workflow/main_workflow.py)
    qual_pc,         \* the sub-score _evaluate_quality computes next, "combine", "returned" or "idle"
    qual_input,      \* test_case, explanations, classification and spec_analysis
    breakdown,       \* metrics["breakdown"]: the sub-scores computed so far, in hundredths
    quality_score,   \* metrics["quality_score"], in hundredths
    recommendations, \* the metrics a recommendation was made for
    qual_error,      \* TRUE when metrics carries an "error" entry
    \* ---- specification analysis (src/src/core/specification_analyzer.py)
    an_pc,           \* "idle" | "start" | "analyzed" | "extracted" | "raised"
    an_input,        \* the request: whether a known standard is selected
    requirement_analysis,\* what _analyze_requirement returned
    all_constraints, \* the Constraint objects _extract_constraints built
    an_raised_by,    \* "none", or what made analyze raise: "response" | "prompt"
    \* ---- stop() and the cancellation of handler tasks (src/src/workflow/main_workflow.py)
    stop_pc,         \* "none" | "joining" | "returned": where stop() is
    \* ---- Step data generation (src/src/generator/case_generator.py)
    data_pc,         \* "idle" | "running" | "done"
    data_input,      \* the step type and the action text of the step
    data_runs,       \* the outcomes of the runs of _generate_step_data on data_input
    \* ---- integrate called on its own (src/src/generator/constraint_integrator.py)
    int_pc,          \* "idle" | "start" | "done"
    int_input,       \* the step list and the constraint list passed to integrate
    int_result,      \* the list integrate returned
    \* ---- The HTTP session of the inference-service client (src/src/api/deepseek_client.py)
    session,         \* self.session: "none" (None) | "open" | "closed"
    client_user,     \* "idle" | "workflow" | "context_manager": the code that holds the client
    user_pc,         \* where the holder is: "constructed" | "body" | "exited"
    call_log         \* the chat_completion calls: who called, the session at the call, the outcome

kbVars == <<relational_db, vector_db, collections, kb_last, import_pc>>
usageVars == <<loop_owner, usage_pc, usage_local, usage_log>>
genVars == <<gen_pc, gen_input, test_steps, integrated, test_case>>
wfVars == <<task_handlers, task_queue, unfinished_tasks, handler_pc, handler_request,
           task_results, accepted, take_log>>
clsVars == <<cls_pc, cls_input, classification, cls_ai, cls_kb, cls_result>>
callVars == <<call_pc, retry, requests_sent, responses, waits, call_outcome>>
batchVars == <<batch_pc, prompts, prompt_pc, semaphore, issued, processed_results>>
searchVars == <<search_pc, search_input, search_next, results>>
selVars == <<sel_pc, sel_input, candidate_templates, scored_templates, sel_result, sel_previous>>
covVars == <<cov_pc, cov_steps, cov_other, cov_constraints, cov_result, cov_before, sub_score>>
qualVars == <<qual_pc, qual_input, breakdown, quality_score, recommendations, qual_error>>
anVars == <<an_pc, an_input, requirement_analysis, all_constraints, an_raised_by>>
stopVars == <<stop_pc>>
dataVars == <<data_pc, data_input, data_runs>>
intVars == <<int_pc, int_input, int_result>>
sessVars == <<session, client_user, user_pc, call_log>>
vars == <<kbVars, usageVars, genVars, wfVars, clsVars, callVars, batchVars,
         searchVars,
         selVars,
         covVars,
         qualVars,
         anVars,
         stopVars,
         dataVars,
         intVars,
         sessVars>>

(***************************************************************************)
(* Bounds of the model.                                                    *)
(***************************************************************************)
MaxIds == 2
MaxUsage == 3
MaxCallers == 2
MaxSteps == 3
MaxConstraints == 2
MaxRequests == 3
MaxConcurrentTasks == 2
MaxKeywordHits == 3
MaxRetries == 3
MaxPrompts == 3
MaxConcurrent == 2
MaxTopK == 2
MaxHits == 2
MaxTemplates == 5
MaxWordLength == 4
MaxCovConstraints == 2
MaxCovSteps == 1
MaxQualSteps == 11
MaxStandards == 2
MaxAnswerItems == 2
MaxCancels == 1
MaxSessionCalls == 4

Ids == 1..MaxIds
Callers == 1..MaxCallers

(***************************************************************************)
(* Exact arithmetic on non-negative rationals <<numerator, denominator>>,  *)
(* kept in lowest terms, for success_rate.                                 *)
(***************************************************************************)
RECURSIVE GCD(_, _)
GCD(a, b) == IF b = 0 THEN a ELSE GCD(b, a % b)

Rat(n, d) == IF n = 0 THEN <<0, 1>> ELSE <<n \div GCD(n, d), d \div GCD(n, d)>>

(***************************************************************************)
(* Knowledge store.                                                        *)
(***************************************************************************)
KnowledgeType ==
    {"standard", "best_practice", "test_pattern", "case_template", "equipment", "controller"}

\* The type strings the modelled calls are given: two declared types, one of them
\* without a collection at start-up, and for import one string outside the enum.
InputTypes == {"standard", "equipment"}
ImportTypes == InputTypes \cup {"general"}
Contents == {"a", "b"}

get_collection_name(knowledge_type) ==
    CASE knowledge_type = "standard" -> "standards"
      [] knowledge_type = "best_practice" -> "best_practices"
      [] knowledge_type = "test_pattern" -> "test_patterns"
      [] knowledge_type = "case_template" -> "case_templates"
      [] knowledge_type = "controller" -> "controllers"
      [] knowledge_type = "equipment" -> "equipment"
      [] OTHER -> "general"

CollectionNames == {get_collection_name(t) : t \in KnowledgeType} \cup {"general"}

\* The collections _init_vector_db creates.
InitialCollections ==
    {"standards", "best_practices", "test_patterns", "case_templates", "controllers"}

NoRecord == [type |-> "none"]

KnowledgeRecord(type, content) ==
    [type |-> type, content |-> content, usage_count |-> 0, success_rate |-> <<0, 1>>]

NoCall == [op |-> "none", id |-> 0, failure |-> "none", raised |-> FALSE]

\* Where a call fails: nowhere, at the relational write, at the collection lookup
\* and creation, at the embedding, at the vector write.  For an import item the
\* vector-side failures all end in the same handler and are one case.
AddFailures == {"none", "relational", "collection", "embed", "write"}
ImportFailures == {"none", "vector"}

\* The compensating action of add_knowledge_item: delete the record and commit.
SemanticFailureNoRollback(rel, id) == rel

SemanticFailureRollback(rel, id) == [rel EXCEPT ![id] = NoRecord]

\* add_knowledge_item(content, type, ...) with the derived id `id`; `f` is the
\* place where the environment makes the call fail.
AddKnowledgeItem(id, type, content, f) ==
    LET name == get_collection_name(type)
        \* the insert fails on its own or on an id that is already a primary key
        relFails == f = "relational" \/ relational_db[id] # NoRecord
        committed == [relational_db EXCEPT ![id] = KnowledgeRecord(type, content)]
        \* get_collection raises for a missing collection; create_collection is
        \* then tried, outside any try block
        createFails == f = "collection"
    IN  IF relFails
        THEN \* rollback, raise: nothing is written
             /\ kb_last' = [op |-> "add", id |-> id, failure |-> "relational", raised |-> TRUE]
             /\ UNCHANGED <<relational_db, vector_db, collections>>
        ELSE IF createFails
        THEN \* the exception leaves the call with the record committed
             /\ relational_db' = committed
             /\ kb_last' = [op |-> "add", id |-> id, failure |-> "collection", raised |-> TRUE]
             /\ UNCHANGED <<vector_db, collections>>
        ELSE IF f \in {"embed", "write"}
        THEN /\ relational_db' = SemanticFailureRollback(committed, id)
             /\ collections' = collections \cup {name}
             /\ kb_last' = [op |-> "add", id |-> id, failure |-> f, raised |-> TRUE]
             /\ UNCHANGED vector_db
        ELSE /\ relational_db' = committed
             /\ collections' = collections \cup {name}
             /\ vector_db' = [vector_db EXCEPT ![name] = @ \cup {id}]
             /\ kb_last' = [op |-> "add", id |-> id, failure |-> "none", raised |-> FALSE]

\* One item of import_knowledge, the body of its loop.  An item whose vector half
\* fails is logged and skipped, but its record was already added to the session:
\* the next query flushes it and the commit that ends the import commits it.
ImportItem(item) ==
    LET id == item.id
        added == [relational_db EXCEPT ![id] = KnowledgeRecord(item.type, item.content)]
        name == get_collection_name(item.type)
        fails == \/ item.type \notin KnowledgeType
                 \/ name \notin collections
                 \/ item.failure # "none"
    IN  /\ import_pc' = "importing"
        /\ kb_last' = [op |-> "import", id |-> id, raised |-> FALSE,
                       failure |-> IF relational_db[id] = NoRecord /\ fails
                                   THEN "vector" ELSE "none"]
        /\ IF relational_db[id] # NoRecord
           THEN \* existing id: content, tags and meta data are updated in place
                /\ relational_db' = [relational_db EXCEPT ![id].content = item.content]
                /\ UNCHANGED vector_db
           ELSE /\ relational_db' = added
                /\ vector_db' = IF fails THEN vector_db
                                ELSE [vector_db EXCEPT ![name] = @ \cup {id}]
        /\ UNCHANGED collections

ImportItemSet ==
    [id : Ids, type : ImportTypes, content : Contents, failure : ImportFailures]

\* The commit and return that end import_knowledge.
ImportCommit ==
    /\ import_pc = "importing"
    /\ import_pc' = "idle"
    /\ UNCHANGED <<relational_db, vector_db, collections, kb_last>>

InitKB ==
    /\ relational_db = [i \in Ids |-> NoRecord]
    /\ vector_db = [c \in CollectionNames |-> {}]
    /\ collections = InitialCollections
    /\ kb_last = NoCall
    /\ import_pc = "idle"

(***************************************************************************)
(* Usage statistics.  record_usage is a plain (non-async) method: a caller *)
(* that runs it holds the event loop from the query to the commit.         *)
(***************************************************************************)
NoUsageCall == [id |-> 0, success |-> FALSE, record |-> NoRecord]

\* Whether record_usage gives up the event loop between its query and its commit.
RecordUsageSuspendsMutant == TRUE

RecordUsageSuspends == FALSE

\* The wrong average: the old rate weighted by n instead of n-1.
RecordUsageUpdateMutant(record, success) ==
    LET n == record.usage_count + 1
        cur == record.success_rate
        num == cur[1] * n + (IF success THEN cur[2] ELSE 0)
    IN  [record EXCEPT !.usage_count = n, !.success_rate = Rat(num, cur[2] * n)]

\* The body of record_usage on a fetched record: usage_count += 1, then
\* success_rate = (success_rate * (usage_count - 1) + (1 if success else 0)) / usage_count.
RecordUsageUpdate(record, success) ==
    LET n == record.usage_count + 1
        cur == record.success_rate
        num == cur[1] * (n - 1) + (IF success THEN cur[2] ELSE 0)
    IN  [record EXCEPT !.usage_count = n, !.success_rate = Rat(num, cur[2] * n)]

\* record_usage, up to the fetch of the record.
RecordUsageRead(c, id, success) ==
    /\ usage_pc[c] = "idle"
    /\ loop_owner = 0
    /\ Len(usage_log) + Cardinality({d \in Callers : usage_pc[d] = "read"}) < MaxUsage
    /\ usage_pc' = [usage_pc EXCEPT ![c] = "read"]
    /\ usage_local' = [usage_local EXCEPT
                         ![c] = [id |-> id, success |-> success, record |-> relational_db[id]]]
    /\ loop_owner' = IF RecordUsageSuspends THEN 0 ELSE c
    /\ UNCHANGED <<relational_db, usage_log>>

\* record_usage, from the fetched record to the commit; an unknown id changes nothing.
RecordUsageCommit(c) ==
    LET call == usage_local[c] IN
    /\ usage_pc[c] = "read"
    /\ loop_owner \in {0, c}
    /\ relational_db' =
          IF call.record = NoRecord THEN relational_db
          ELSE [relational_db EXCEPT ![call.id] = RecordUsageUpdate(call.record, call.success)]
    /\ usage_log' = Append(usage_log, [caller |-> c, id |-> call.id, success |-> call.success])
    /\ usage_pc' = [usage_pc EXCEPT ![c] = "idle"]
    /\ usage_local' = [usage_local EXCEPT ![c] = NoUsageCall]
    /\ loop_owner' = 0

InitUsageIdle ==
    /\ loop_owner = 0
    /\ usage_pc = [c \in Callers |-> "idle"]
    /\ usage_local = [c \in Callers |-> NoUsageCall]
    /\ usage_log = <<>>

\* The store the usage calls run against: fresh items, and one id that is unknown.
UnknownId == MaxIds

InitUsage ==
    /\ relational_db = [i \in Ids |-> IF i = UnknownId THEN NoRecord
                                      ELSE KnowledgeRecord("standard", "a")]
    /\ vector_db = [c \in CollectionNames |->
                      IF c = "standards" THEN {i \in Ids : relational_db[i] # NoRecord} ELSE {}]
    /\ collections = InitialCollections
    /\ kb_last = NoCall
    /\ import_pc = "idle"
    /\ InitUsageIdle

(***************************************************************************)
(* Test-case generation: step generation, sequence optimization, constraint *)
(* integration and the construction of the TestCase.                        *)
(***************************************************************************)
TestStepType == {"setup", "stimulus", "verification", "delay", "record", "cleanup"}

\* The step types the modelled inputs use ("delay" and "record" are handled as
\* "stimulus" by the optimizer), and a string outside the enum that the inference
\* service may return.
InputStepTypes == {"setup", "stimulus", "verification", "cleanup"}
ServiceStepTypes == InputStepTypes \cup {"bogus"}

\* A step: `kind` tells a TestStep object from a dict built by the integrator,
\* `uid` is the identity of the object (lists share objects).
TestStep(uid, step_type, step_number) ==
    [uid |-> uid, step_type |-> step_type, step_number |-> step_number, kind |-> "object"]

NoTestCase == [status |-> "none"]

Range(q) == {q[i] : i \in DOMAIN q}

\* _generate_step_from_template for each of the first 10 step templates.
MaxTemplateSteps == 10

StepsFromTemplate(step_templates) ==
    [i \in 1..(IF Len(step_templates) < MaxTemplateSteps
               THEN Len(step_templates) ELSE MaxTemplateSteps) |->
        TestStep(i, step_templates[i], i)]

\* _generate_default_steps
DefaultSequence == <<"setup", "stimulus", "verification", "verification", "record", "cleanup">>

GenerateDefaultSteps == [i \in 1..Len(DefaultSequence) |-> TestStep(i, DefaultSequence[i], i)]

\* _generate_steps_with_ai: the steps of the returned plan, with the step numbers
\* the service gave; any exception (the call, the JSON, a step_type outside the
\* enum) is answered with the default steps.
GenerateStepsWithAI(response) ==
    IF response.failed \/ \E i \in DOMAIN response.plan : response.plan[i] \notin TestStepType
    THEN GenerateDefaultSteps
    ELSE [i \in DOMAIN response.plan |->
            TestStep(i, response.plan[i], IF response.dense THEN i ELSE response.number)]

\* The cleanup steps numbered from the count of the steps before them (off by one).
OptimizeStepSequenceMutant(steps) ==
    LET setup_steps == SelectSeq(steps, LAMBDA s : s.step_type = "setup")
        other_steps == SelectSeq(steps, LAMBDA s : s.step_type \notin {"setup", "cleanup"})
        cleanup_steps == SelectSeq(steps, LAMBDA s : s.step_type = "cleanup")
        start_idx == Len(setup_steps) + 1
        cleanup_start_idx == Len(setup_steps) + Len(other_steps)
    IN  [i \in 1..Len(setup_steps) |-> [setup_steps[i] EXCEPT !.step_number = i]]
        \o [i \in 1..Len(other_steps) |-> [other_steps[i] EXCEPT !.step_number = start_idx + i - 1]]
        \o [i \in 1..Len(cleanup_steps) |->
              [cleanup_steps[i] EXCEPT !.step_number = cleanup_start_idx + i - 1]]

\* _optimize_step_sequence: setup steps, then the others, then the cleanup steps,
\* each group in its order, numbered from 1.
OptimizeStepSequence(steps) ==
    LET setup_steps == SelectSeq(steps, LAMBDA s : s.step_type = "setup")
        other_steps == SelectSeq(steps, LAMBDA s : s.step_type \notin {"setup", "cleanup"})
        cleanup_steps == SelectSeq(steps, LAMBDA s : s.step_type = "cleanup")
        start_idx == Len(setup_steps) + 1
        cleanup_start_idx == Len(setup_steps) + Len(other_steps) + 1
    IN  [i \in 1..Len(setup_steps) |-> [setup_steps[i] EXCEPT !.step_number = i]]
        \o [i \in 1..Len(other_steps) |-> [other_steps[i] EXCEPT !.step_number = start_idx + i - 1]]
        \o [i \in 1..Len(cleanup_steps) |->
              [cleanup_steps[i] EXCEPT !.step_number = cleanup_start_idx + i - 1]]

\* _generate_test_steps
GenerateTestSteps(input) ==
    OptimizeStepSequence(IF input.template = "step_templates"
                         THEN StepsFromTemplate(input.plan)
                         ELSE GenerateStepsWithAI(input))

(***************************************************************************)
(* Constraint integration (src/src/generator/constraint_integrator.py).    *)
(***************************************************************************)
\* The constraint types that have mapping rules.
MappingRuleTypes == {"performance", "safety", "reliability", "environmental"}

\* A constraint of the request: its place in the list, its type, and whether its
\* content matches a rule pattern of its type.
ConstraintKinds == {[type |-> "performance", matches |-> TRUE],
                    [type |-> "performance", matches |-> FALSE],
                    [type |-> "safety", matches |-> TRUE],
                    [type |-> "other", matches |-> TRUE]}

\* _analyze_constraint_types: the types in the order of their first constraint
\* (a dict keeps insertion order), each with its constraints in list order.
RECURSIVE TypesInOrder(_, _)
TypesInOrder(constraints, seen) ==
    IF constraints = <<>> THEN <<>>
    ELSE IF Head(constraints).type \in seen THEN TypesInOrder(Tail(constraints), seen)
    ELSE <<Head(constraints).type>>
         \o TypesInOrder(Tail(constraints), seen \cup {Head(constraints).type})

\* _find_insertion_index, as the count of steps before the insertion point.
\* Only dict steps are looked at.
FindInsertionIndex(steps) ==
    LET verifs == {i \in DOMAIN steps : steps[i].kind = "dict" /\ steps[i].step_type = "verification"}
        stims == {i \in DOMAIN steps : steps[i].kind = "dict" /\ steps[i].step_type = "stimulus"}
    IN  IF verifs # {} THEN CHOOSE i \in verifs : \A j \in verifs : j <= i
        ELSE IF stims # {} THEN CHOOSE i \in stims : \A j \in stims : i <= j
        ELSE Len(steps)

\* _apply_mapping_rule: build the verification step, insert it, renumber the dicts.
ApplyMappingRule(steps, constraint) ==
    LET at == FindInsertionIndex(steps)
        verification_step == [uid |-> Len(steps) + 1, step_type |-> "verification",
                              step_number |-> at + 1, kind |-> "dict"]
        inserted == SubSeq(steps, 1, at) \o <<verification_step>> \o SubSeq(steps, at + 1, Len(steps))
    IN  [i \in DOMAIN inserted |->
            IF inserted[i].kind = "dict" THEN [inserted[i] EXCEPT !.step_number = i]
            ELSE inserted[i]]

\* A step for every constraint of the type, whether a rule matches it or not.
RECURSIVE IntegrateConstraintTypeMutant(_, _, _)
IntegrateConstraintTypeMutant(steps, constraint_type, constraints) ==
    IF constraint_type \notin MappingRuleTypes \/ constraints = <<>> THEN steps
    ELSE IntegrateConstraintTypeMutant(
            IF Head(constraints).type = constraint_type
            THEN ApplyMappingRule(steps, Head(constraints)) ELSE steps,
            constraint_type, Tail(constraints))

\* _integrate_constraint_type: one step for each constraint that matches a rule.
RECURSIVE IntegrateConstraintType(_, _, _)
IntegrateConstraintType(steps, constraint_type, constraints) ==
    IF constraint_type \notin MappingRuleTypes \/ constraints = <<>> THEN steps
    ELSE IntegrateConstraintType(
            IF Head(constraints).type = constraint_type /\ Head(constraints).matches
            THEN ApplyMappingRule(steps, Head(constraints)) ELSE steps,
            constraint_type, Tail(constraints))

RECURSIVE IntegrateTypes(_, _, _)
IntegrateTypes(steps, types, constraints) ==
    IF types = <<>> THEN steps
    ELSE IntegrateTypes(IntegrateConstraintType(steps, Head(types), constraints),
                        Tail(types), constraints)

\* integrate: the list itself when there is no constraint, else a new list that
\* shares the step objects.
Integrate(steps, constraints) ==
    IF constraints = <<>> THEN steps
    ELSE IntegrateTypes(steps, TypesInOrder(constraints, {}), constraints)

\* The state of the objects of `steps` after `list`, which shares them, was worked on.
SharedObjects(steps, list) ==
    [i \in DOMAIN steps |-> CHOOSE s \in Range(list) : s.uid = steps[i].uid]

\* The inputs of one generate_test_case call: the template (a dict with
\* step_templates, a dict without, or None), the step templates or the service's
\* plan, and the constraints of the specification analysis.
Plans(types) == UNION {[1..n -> types] : n \in 0..MaxSteps}

ConstraintLists == UNION {[1..n -> ConstraintKinds] : n \in 0..MaxConstraints}

ServiceNumber == 7

GenInputs ==
    [template : {"step_templates"}, plan : Plans(InputStepTypes), failed : {FALSE},
     dense : {TRUE}, number : {ServiceNumber}, constraints : ConstraintLists]
    \cup
    [template : {"no_step_templates"}, plan : Plans(ServiceStepTypes), failed : {FALSE},
     dense : BOOLEAN, number : {ServiceNumber}, constraints : ConstraintLists]
    \cup
    [template : {"none"}, plan : Plans(ServiceStepTypes), failed : {FALSE},
     dense : {TRUE}, number : {ServiceNumber}, constraints : ConstraintLists]
    \cup
    [template : {"no_step_templates"}, plan : {<<>>}, failed : {TRUE},
     dense : {TRUE}, number : {ServiceNumber}, constraints : ConstraintLists]

NoGenInput == [template : {"none"}, plan : {<<>>}, failed : {FALSE}, dense : {TRUE},
               number : {ServiceNumber}, constraints : {<<>>}]

InitGenIdle ==
    /\ gen_pc = "idle"
    /\ gen_input \in NoGenInput
    /\ test_steps = <<>>
    /\ integrated = <<>>
    /\ test_case = NoTestCase

InitGen ==
    /\ gen_pc = "start"
    /\ gen_input \in GenInputs
    /\ test_steps = <<>>
    /\ integrated = <<>>
    /\ test_case = NoTestCase

\* generate_test_case, steps 1-2: the template and the test steps.
GenerateSteps ==
    /\ gen_pc = "start"
    /\ test_steps' = GenerateTestSteps(gen_input)
    /\ gen_pc' = "steps"
    /\ UNCHANGED <<gen_input, integrated, test_case>>

\* generate_test_case, steps 3-6: data, preconditions, expected results, pass
\* criteria (they read the steps) and the integration of the constraints.
IntegrateConstraints ==
    /\ gen_pc = "steps"
    /\ integrated' = Integrate(test_steps, gen_input.constraints)
    /\ test_steps' = SharedObjects(test_steps, integrated')
    /\ gen_pc' = "integrated"
    /\ UNCHANGED <<gen_input, test_case>>

\* generate_test_case, step 7: _build_test_case with test_steps=test_steps and
\* constraints=integrated_constraints.  With template None, selected_template is
\* the tuple select_template returned, and template.get raises.
BuildTestCase ==
    /\ gen_pc = "integrated"
    /\ IF gen_input.template = "none"
       THEN /\ gen_pc' = "raised"
            /\ UNCHANGED test_case
       ELSE /\ gen_pc' = "done"
            /\ test_case' = [status |-> "returned", test_steps |-> test_steps,
                             constraints |-> integrated]
    /\ UNCHANGED <<gen_input, test_steps, integrated>>

(***************************************************************************)
(* The request workflow: submit_request, the handler tasks and the stages  *)
(* of _process_request.                                                    *)
(***************************************************************************)
\* The stages of _process_request.
NumStages == 7

\* The handler tasks that can exist (one more than the configured number).
HandlerIds == 1..(MaxConcurrentTasks + 1)

RequestIds == 1..MaxRequests

NoRequest == [id |-> 0, callback_url |-> FALSE]

\* A GenerationRequest: its id and whether it carries a callback_url.
GenerationRequest(id, callback_url) == [id |-> id, callback_url |-> callback_url]

NoResult == [request_id |-> 0]

\* A GenerationResult: success, and whether it carries an error text.
GenerationResult(request_id, success, error) ==
    [request_id |-> request_id, success |-> success, error |-> error]

\* start(): range(self.config.max_concurrent_tasks)
StartedHandlers == 1..MaxConcurrentTasks

\* A queue get that hands out the oldest item and leaves it in the queue.
QueueGetMutant(queue) == [item |-> Head(queue), rest |-> queue]

\* asyncio.Queue.get: the oldest item is removed and returned.
QueueGet(queue) == [item |-> Head(queue), rest |-> Tail(queue)]

\* A stage exception after which the request has no result.
StageFailureMutant(request) == NoResult

\* _process_request, except Exception: a result with success=False and str(e).
StageFailure(request) == GenerationResult(request.id, FALSE, TRUE)

\* _process_request, all stages passed.
StageSuccess(request) == GenerationResult(request.id, TRUE, FALSE)

InitWF ==
    /\ task_handlers = {}
    /\ task_queue = <<>>
    /\ unfinished_tasks = 0
    /\ handler_pc = [h \in HandlerIds |-> "none"]
    /\ handler_request = [h \in HandlerIds |-> NoRequest]
    /\ task_results = [id \in RequestIds |-> NoResult]
    /\ accepted = 0
    /\ take_log = <<>>

\* start(): the handler tasks are created; each one runs up to its queue get.
Start ==
    /\ task_handlers = {}
    /\ task_handlers' = StartedHandlers
    /\ handler_pc' = [h \in HandlerIds |-> IF h \in StartedHandlers THEN "get" ELSE "none"]
    /\ UNCHANGED <<task_queue, unfinished_tasks, handler_request, task_results,
                   accepted, take_log>>

\* submit_request: the request is put on the (unbounded) queue.
SubmitRequest(callback_url) ==
    /\ accepted < MaxRequests
    /\ accepted' = accepted + 1
    /\ task_queue' = Append(task_queue, GenerationRequest(accepted + 1, callback_url))
    /\ unfinished_tasks' = unfinished_tasks + 1
    /\ UNCHANGED <<task_handlers, handler_pc, handler_request, task_results, take_log>>

\* _task_handler: request = await self.task_queue.get(); _process_request begins.
HandlerGet(h) ==
    /\ handler_pc[h] = "get"
    /\ task_queue # <<>>
    /\ task_queue' = QueueGet(task_queue).rest
    /\ handler_request' = [handler_request EXCEPT ![h] = QueueGet(task_queue).item]
    /\ handler_pc' = [handler_pc EXCEPT ![h] = "process"]
    /\ take_log' = Append(take_log, [request |-> QueueGet(task_queue).item.id, handler |-> h])
    /\ UNCHANGED <<task_handlers, unfinished_tasks, task_results, accepted>>

\* _task_handler after _process_request returned `result`: the result is stored;
\* with a callback_url the handler awaits the notification, else it marks the
\* task done and goes back to the queue.
HandlerStore(h, result) ==
    /\ task_results' = [task_results EXCEPT ![handler_request[h].id] = result]
    /\ IF handler_request[h].callback_url
       THEN /\ handler_pc' = [handler_pc EXCEPT ![h] = "notify"]
            /\ UNCHANGED <<handler_request, unfinished_tasks>>
       ELSE /\ handler_pc' = [handler_pc EXCEPT ![h] = "get"]
            /\ handler_request' = [handler_request EXCEPT ![h] = NoRequest]
            /\ unfinished_tasks' = unfinished_tasks - 1
    /\ UNCHANGED <<task_handlers, task_queue, accepted, take_log>>

\* _process_request: every stage returned; the result is built and the handler
\* stores it.
StagesPass(h) ==
    /\ handler_pc[h] = "process"
    /\ HandlerStore(h, StageSuccess(handler_request[h]))

\* _process_request: stage `stage` raises, the later stages are skipped; the
\* except clause builds the failure result and the handler stores it.
StageRaises(h, stage) ==
    /\ handler_pc[h] = "process"
    /\ stage \in 1..NumStages
    /\ HandlerStore(h, StageFailure(handler_request[h]))

\* _notify_callback returns (it swallows its exceptions); task_done; next get.
HandlerNotified(h) ==
    /\ handler_pc[h] = "notify"
    /\ handler_pc' = [handler_pc EXCEPT ![h] = "get"]
    /\ handler_request' = [handler_request EXCEPT ![h] = NoRequest]
    /\ unfinished_tasks' = unfinished_tasks - 1
    /\ UNCHANGED <<task_handlers, task_queue, task_results, accepted, take_log>>

(***************************************************************************)
(* The hierarchical classifier: rule scoring, inference-service            *)
(* enhancement, knowledge-store validation and the final construction.     *)
(* Confidence values are kept as integers, ConfidenceScale times the float. *)
(***************************************************************************)
ConfidenceScale == 30

\* base_classification["confidence"] > 0.8
EnhanceThreshold == 24

\* sorted_patterns[:3] and ai_result["test_patterns"][:3]
MaxPatterns == 3

TestDomain == {"HIL_TESTING", "VEHICLE_EE_TESTING", "ENERGY_TESTING", "BENCH_TESTING",
               "ENVIRONMENTAL_TESTING", "SAFETY_TESTING"}

TestSubsystem == {"VCU", "BMS", "MCU", "ESP", "ADAS", "GATEWAY", "POWER_SYSTEM",
                  "NETWORK_SYSTEM", "SENSOR", "ACTUATOR"}

TestPattern == {"FUNCTIONAL_TEST", "PERFORMANCE_TEST", "SAFETY_TEST", "RELIABILITY_TEST",
                "ENVIRONMENTAL_TEST", "COMPATIBILITY_TEST", "FAULT_INJECTION",
                "BOUNDARY_TEST", "DIAGNOSTIC_TEST"}

\* None
Unset == "none"

Min(a, b) == IF a < b THEN a ELSE b

Max(a, b) == IF a < b THEN b ELSE a

FirstN(q, n) == SubSeq(q, 1, Min(n, Len(q)))

\* The labels the keywords of the modelled requirements stand for: the best
\* scoring domain and subsystem, and the patterns in descending score order.
RuleDomain == "ENERGY_TESTING"

RuleSubsystem == "BMS"

RulePatternOrder == <<"PERFORMANCE_TEST", "SAFETY_TEST", "BOUNDARY_TEST", "DIAGNOSTIC_TEST">>

\* _rule_based_classification
RuleBasedClassification(input) ==
    LET domain_confidence ==
            IF input.domain_hits > 0
            THEN Min(ConfidenceScale, (input.domain_hits * ConfidenceScale) \div 3)
            ELSE 0
    IN  [domain |-> IF input.domain_hits > 0 THEN RuleDomain ELSE Unset,
         subsystem |-> IF input.subsystem_hits > 0 THEN RuleSubsystem ELSE Unset,
         test_patterns |-> FirstN(RulePatternOrder, Min(input.pattern_hits, MaxPatterns)),
         confidence |->
            IF input.subsystem_hits > 0
            THEN (domain_confidence * 6) \div 10
                 + (Min(ConfidenceScale, (input.subsystem_hits * ConfidenceScale) \div 2) * 4) \div 10
            ELSE domain_confidence]

\* The answers of the inference service that parse as a JSON object: a label is
\* absent (""), a value of the enum, or another string; the confidence is absent
\* (0), 0.9 or 5.0.
AIResponses ==
    [status : {"answered"},
     domain : {"", "SAFETY_TESTING", "bogus"},
     subsystem : {"", "MCU", "bogus"},
     test_patterns : {<<>>, <<"bogus">>,
                      <<"RELIABILITY_TEST", "bogus", "FAULT_INJECTION", "FUNCTIONAL_TEST">>},
     confidence : {0, 27, 150}]

\* The call that raises: the request, the JSON parse, or the merge.
AIFailure == [status |-> "failed", domain |-> "", subsystem |-> "", test_patterns |-> <<>>,
              confidence |-> 0]

\* The valid patterns among the first three names.
ValidPatterns(names) == SelectSeq(FirstN(names, MaxPatterns), LAMBDA p : p \in TestPattern)

\* _ai_enhanced_classification, the merge of a parsed answer.
MergeAIResult(base, ai_result) ==
    [domain |-> IF ai_result.domain \in TestDomain THEN ai_result.domain ELSE base.domain,
     subsystem |-> IF ai_result.subsystem \in TestSubsystem THEN ai_result.subsystem
                   ELSE base.subsystem,
     test_patterns |-> IF ai_result.test_patterns # <<>>
                       THEN ValidPatterns(ai_result.test_patterns) ELSE base.test_patterns,
     confidence |-> Max(base.confidence, ai_result.confidence)]

\* What search_knowledge returned: the most common domain of the items and the
\* most common subsystem named in their tags ("" when no tag names one).
KnowledgeHits == [status : {"hits"}, domain : {"BENCH_TESTING", "bogus"}, subsystem : {"", "ESP"}]

\* search_knowledge raising, and search_knowledge returning the empty list.
KnowledgeRaised == [status |-> "raised", domain |-> "", subsystem |-> ""]

KnowledgeEmpty == [status |-> "empty", domain |-> "", subsystem |-> ""]

\* _validate_with_knowledge_base, the merge of a non-empty search result.
MergeKnowledge(c, hits) ==
    [c EXCEPT !.domain = IF c.domain = Unset /\ hits.domain \in TestDomain
                         THEN hits.domain ELSE @,
              !.subsystem = IF c.subsystem = Unset /\ hits.subsystem \in TestSubsystem
                            THEN hits.subsystem ELSE @]

NoClassificationResult == [status |-> "none"]

\* The default domain whatever the phases have set.
BuildClassificationResultMutant(c) ==
    [status |-> "returned",
     domain |-> "HIL_TESTING",
     subsystem |-> IF c.subsystem = Unset THEN "VCU" ELSE c.subsystem,
     test_patterns |-> IF c.test_patterns = <<>> THEN <<"FUNCTIONAL_TEST">> ELSE c.test_patterns,
     confidence |-> c.confidence]

\* _build_classification_result: the defaults for what no phase has set.
BuildClassificationResult(c) ==
    [status |-> "returned",
     domain |-> IF c.domain = Unset THEN "HIL_TESTING" ELSE c.domain,
     subsystem |-> IF c.subsystem = Unset THEN "VCU" ELSE c.subsystem,
     test_patterns |-> IF c.test_patterns = <<>> THEN <<"FUNCTIONAL_TEST">> ELSE c.test_patterns,
     confidence |-> c.confidence]

\* spec_analysis as the callers pass it: None, a dict, or the
\* SpecificationAnalysisResult object the workflow passes.
SpecAnalysisKinds == {"none", "dict", "object"}

ClsInputs ==
    [domain_hits : 0..MaxKeywordHits, subsystem_hits : 0..MaxKeywordHits,
     pattern_hits : 0..Len(RulePatternOrder), spec_analysis : SpecAnalysisKinds]

NoClassification == [domain |-> Unset, subsystem |-> Unset, test_patterns |-> <<>>, confidence |-> 0]

InitClsIdle ==
    /\ cls_pc = "idle"
    /\ cls_input = [domain_hits |-> 0, subsystem_hits |-> 0, pattern_hits |-> 0,
                    spec_analysis |-> "none"]
    /\ classification = NoClassification
    /\ cls_ai = "none"
    /\ cls_kb = "none"
    /\ cls_result = NoClassificationResult

InitCls ==
    /\ cls_pc = "start"
    /\ cls_input \in ClsInputs
    /\ classification = NoClassification
    /\ cls_ai = "none"
    /\ cls_kb = "none"
    /\ cls_result = NoClassificationResult

\* classify, phase 1
RuleScoring ==
    /\ cls_pc = "start"
    /\ classification' = RuleBasedClassification(cls_input)
    /\ cls_pc' = "rule_scored"
    /\ UNCHANGED <<cls_input, cls_ai, cls_kb, cls_result>>

\* classify, phase 2: no call above the threshold; else the call, whose failure
\* (the request, the JSON, the merge) leaves the base classification.
AIEnhancement(outcome) ==
    /\ cls_pc = "rule_scored"
    /\ cls_pc' = "enhanced"
    /\ IF classification.confidence > EnhanceThreshold
       THEN /\ outcome = AIFailure
            /\ cls_ai' = "skipped"
            /\ UNCHANGED classification
       ELSE IF outcome.status = "failed"
       THEN /\ cls_ai' = "failed"
            /\ UNCHANGED classification
       ELSE /\ cls_ai' = "answered"
            /\ classification' = MergeAIResult(classification, outcome)
    /\ UNCHANGED <<cls_input, cls_kb, cls_result>>

\* classify, phase 3: the store is searched when domain or subsystem is unset;
\* the search is not guarded, what it raises leaves classify.
KnowledgeValidation(outcome) ==
    /\ cls_pc = "enhanced"
    /\ IF classification.domain # Unset /\ classification.subsystem # Unset
       THEN /\ outcome = KnowledgeEmpty
            /\ cls_kb' = "skipped"
            /\ cls_pc' = "validated"
            /\ UNCHANGED classification
       ELSE IF outcome.status = "raised"
       THEN /\ cls_kb' = "raised"
            /\ cls_pc' = "raised"
            /\ UNCHANGED classification
       ELSE IF outcome.status = "empty"
       THEN /\ cls_kb' = "empty"
            /\ cls_pc' = "validated"
            /\ UNCHANGED classification
       ELSE /\ cls_kb' = "hits"
            /\ cls_pc' = "validated"
            /\ classification' = MergeKnowledge(classification, outcome)
    /\ UNCHANGED <<cls_input, cls_ai, cls_result>>

\* classify, phase 4: `"extracted_constraints" in spec_analysis` raises TypeError
\* for an object that is neither None nor a container.
FinalConstruction ==
    /\ cls_pc = "validated"
    /\ IF cls_input.spec_analysis = "object"
       THEN /\ cls_pc' = "raised"
            /\ UNCHANGED cls_result
       ELSE /\ cls_pc' = "returned"
            /\ cls_result' = BuildClassificationResult(classification)
    /\ UNCHANGED <<cls_input, classification, cls_ai, cls_kb>>

(***************************************************************************)
(* The inference-service client: chat_completion's retry loop.             *)
(***************************************************************************)
\* What one posted request is answered with: a status code with its body (a
\* 200 with a JSON body, a 200 whose body response.json() rejects with a
\* ContentTypeError), an aiohttp.ClientError, or the session's total timeout.
Responses == {"200", "200_not_json", "429", "401", "403", "500", "client_error", "timeout"}

\* A backoff that grows by one second for each retry.
BackoffWaitMutant(k) == k + 1

\* wait_time = 2 ** retry
BackoffWait(k) == 2 ^ k

\* The wait after a caught aiohttp.ClientError: asyncio.sleep(1)
ClientErrorWait == 1

InitCallIdle ==
    /\ call_pc = "idle"
    /\ retry = 0
    /\ requests_sent = 0
    /\ responses = <<>>
    /\ waits = <<>>
    /\ call_outcome = "none"

\* chat_completion was called on a connected client: the loop is entered.
InitCall ==
    /\ call_pc = IF MaxRetries > 0 THEN "send" ELSE "raised"
    /\ retry = 0
    /\ requests_sent = 0
    /\ responses = <<>>
    /\ waits = <<>>
    /\ call_outcome = IF MaxRetries > 0 THEN "none" ELSE "DeepSeekError"

\* self.session.post(...): the request of this attempt is sent.
SendRequest ==
    /\ call_pc = "send"
    /\ requests_sent' = requests_sent + 1
    /\ call_pc' = "awaiting"
    /\ UNCHANGED <<retry, responses, waits, call_outcome>>

\* The call ends: it returns the data or raises.
CallEnds(pc, outcome, response) ==
    /\ call_pc' = pc
    /\ call_outcome' = outcome
    /\ responses' = Append(responses, response)
    /\ waits' = Append(waits, 0)
    /\ UNCHANGED <<retry, requests_sent>>

\* The call sleeps before its loop goes on.
CallSleeps(seconds, response) ==
    /\ call_pc' = "sleeping"
    /\ responses' = Append(responses, response)
    /\ waits' = Append(waits, seconds)
    /\ UNCHANGED <<retry, requests_sent, call_outcome>>

\* The answer to the request in flight, and the branch of the loop body it takes.
ReceiveResponse(response) ==
    /\ call_pc = "awaiting"
    /\ CASE response = "200" -> CallEnds("returned", "data", response)
         [] response = "429" -> CallSleeps(BackoffWait(retry), response)
         [] response \in {"401", "403"} -> CallEnds("raised", "AuthenticationError", response)
         [] response = "500" -> CallEnds("raised", "DeepSeekError", response)
         [] response = "timeout" -> CallEnds("raised", "TimeoutError", response)
         [] response \in {"client_error", "200_not_json"} ->
               IF retry = MaxRetries - 1
               THEN CallEnds("raised", "DeepSeekError", response)
               ELSE CallSleeps(ClientErrorWait, response)

\* asyncio.sleep returns: the next iteration, or the raise after the loop.
WakeUp ==
    /\ call_pc = "sleeping"
    /\ retry' = retry + 1
    /\ IF retry + 1 < MaxRetries
       THEN /\ call_pc' = "send"
            /\ UNCHANGED call_outcome
       ELSE /\ call_pc' = "raised"
            /\ call_outcome' = "DeepSeekError"
    /\ UNCHANGED <<requests_sent, responses, waits>>

(***************************************************************************)
(* The inference-service client: batch_chat_completion.  Each prompt has   *)
(* its process_prompt task; the chat_completion call inside it returns or  *)
(* raises as the retry loop above decides.                                 *)
(***************************************************************************)
PromptIds == 1..MaxPrompts

\* A raised call that keeps its semaphore slot.
ReleaseAfterRaiseMutant(value) == value

\* `async with semaphore` left through an exception: the slot is given back.
ReleaseAfterRaise(value) == value + 1

\* The entry of processed_results for a prompt: the data, or the error dict
\* with the index of the prompt.
ProcessedResult(p, pc) ==
    IF pc = "failed" THEN [kind |-> "error", index |-> p - 1]
    ELSE [kind |-> "data", index |-> p - 1]

InitBatchIdle ==
    /\ batch_pc = "idle"
    /\ prompts = 0
    /\ prompt_pc = [p \in PromptIds |-> "none"]
    /\ semaphore = 0
    /\ issued = <<>>
    /\ processed_results = <<>>

\* batch_chat_completion was called: the semaphore and one task for each prompt.
InitBatch ==
    /\ batch_pc = "gathering"
    /\ prompts \in 0..MaxPrompts
    /\ prompt_pc = [p \in PromptIds |-> IF p <= prompts THEN "pending" ELSE "none"]
    /\ semaphore = MaxConcurrent
    /\ issued = <<>>
    /\ processed_results = <<>>

\* process_prompt: the semaphore is acquired and chat_completion is called.
AcquireAndCall(p) ==
    /\ batch_pc = "gathering"
    /\ prompt_pc[p] = "pending"
    /\ semaphore > 0
    /\ semaphore' = semaphore - 1
    /\ prompt_pc' = [prompt_pc EXCEPT ![p] = "inflight"]
    /\ issued' = Append(issued, p)
    /\ UNCHANGED <<batch_pc, prompts, processed_results>>

\* chat_completion returns its data; the semaphore is released.
CallReturns(p) ==
    /\ prompt_pc[p] = "inflight"
    /\ prompt_pc' = [prompt_pc EXCEPT ![p] = "ok"]
    /\ semaphore' = semaphore + 1
    /\ UNCHANGED <<batch_pc, prompts, issued, processed_results>>

\* chat_completion raises; the semaphore is released, gather keeps the exception.
CallRaises(p) ==
    /\ prompt_pc[p] = "inflight"
    /\ prompt_pc' = [prompt_pc EXCEPT ![p] = "failed"]
    /\ semaphore' = ReleaseAfterRaise(semaphore)
    /\ UNCHANGED <<batch_pc, prompts, issued, processed_results>>

\* gather returns when every task is done; the exceptions become error entries.
GatherReturns ==
    /\ batch_pc = "gathering"
    /\ \A p \in PromptIds : prompt_pc[p] \in {"none", "ok", "failed"}
    /\ processed_results' = [p \in 1..prompts |-> ProcessedResult(p, prompt_pc[p])]
    /\ batch_pc' = "returned"
    /\ UNCHANGED <<prompts, prompt_pc, semaphore, issued>>

(***************************************************************************)
(* search_knowledge.  Distances and confidences are integers, in units of  *)
(* 1/ConfidenceScale.                                                      *)
(***************************************************************************)
\* The collections one search goes through (collection_names).
SearchedCollections == 2

\* include=[...] as search_knowledge passes it to collection.query.
QueryInclude == {"documents", "meta_datas", "distances"}

\* The include names the vector store knows; its result is keyed by them.
StoreIncludeKeys == {"documents", "embeddings", "metadatas", "distances"}

\* What the store holds for the query in one collection: the lookup
\* (get_collection, query) fails, or it finds the nearest items, at most
\* n_results = top_k of them, by ascending distance.
IsAscending(q) == \A i \in 1..(Len(q) - 1) : q[i] <= q[i + 1]

StoreAnswers(top_k) ==
    {[lookup |-> "fails", distances |-> <<>>]}
    \cup {[lookup |-> "ok", distances |-> q] :
            q \in {r \in UNION {[1..n -> 0..MaxHits] : n \in 0..Min(top_k, MaxHits)} :
                      IsAscending(r)}}

\* KnowledgeItem(..., confidence = 1.0 - distance) for each hit of a collection.
HitItems(collection, distances) ==
    [i \in DOMAIN distances |->
        [collection |-> collection, rank |-> i, confidence |-> ConfidenceScale - distances[i]]]

\* The loop over the hits of one query result: the metadata of a hit is read
\* from query_results["meta_datas"]; a missing key raises KeyError, which the
\* except clause of the collection loop catches.
ProcessHits(result_keys, collection, distances) ==
    IF distances = <<>> THEN <<>>
    ELSE IF "meta_datas" \in result_keys THEN HitItems(collection, distances)
    ELSE <<>>

\* One iteration of `for collection_name in collection_names`: what it appends.
\* A store that validates include rejects the query; one that does not returns
\* a result keyed by the names it knows.
CollectionContribution(collection, answer, validates) ==
    IF answer.lookup = "fails" THEN <<>>
    ELSE IF validates /\ ~(QueryInclude \subseteq StoreIncludeKeys) THEN <<>>
    ELSE ProcessHits(QueryInclude \cap StoreIncludeKeys, collection, answer.distances)

\* list.sort(key=confidence, reverse=True): stable, descending.
RECURSIVE InsertByConfidence(_, _)
InsertByConfidence(sorted, item) ==
    IF sorted = <<>> THEN <<item>>
    ELSE IF Head(sorted).confidence >= item.confidence
         THEN <<Head(sorted)>> \o InsertByConfidence(Tail(sorted), item)
         ELSE <<item>> \o sorted

RECURSIVE SortByConfidence(_)
SortByConfidence(q) ==
    IF q = <<>> THEN <<>>
    ELSE InsertByConfidence(SortByConfidence(SubSeq(q, 1, Len(q) - 1)), q[Len(q)])

Embedders == {"primary", "fallback"}

SearchInputs ==
    UNION {[top_k : {k}, embedder : Embedders, validates : BOOLEAN,
            answers : [1..SearchedCollections -> StoreAnswers(k)]] : k \in 1..MaxTopK}

InitSearchIdle ==
    /\ search_pc = "idle"
    /\ search_input = [top_k |-> 1, embedder |-> "primary", validates |-> TRUE,
                       answers |-> [c \in 1..SearchedCollections |->
                                       [lookup |-> "fails", distances |-> <<>>]]]
    /\ search_next = 0
    /\ results = <<>>

InitSearch ==
    /\ search_pc = "start"
    /\ search_input \in SearchInputs
    /\ search_next = 0
    /\ results = <<>>

\* query_embedding = self.embedder.encode(query).tolist(): SimpleEmbedder.encode
\* returns a list, which has no tolist; the AttributeError leaves the function.
EncodeQuery ==
    /\ search_pc = "start"
    /\ IF search_input.embedder = "fallback"
       THEN search_pc' = "raised" /\ UNCHANGED search_next
       ELSE search_pc' = "querying" /\ search_next' = 1
    /\ UNCHANGED <<search_input, results>>

\* The body of the collection loop for the next collection.
SearchCollection ==
    /\ search_pc = "querying"
    /\ search_next <= SearchedCollections
    /\ results' = results \o CollectionContribution(search_next, search_input.answers[search_next],
                                                    search_input.validates)
    /\ search_next' = search_next + 1
    /\ UNCHANGED <<search_pc, search_input>>

\* results.sort(...); return results[:top_k]
SortAndReturn ==
    /\ search_pc = "querying"
    /\ search_next > SearchedCollections
    /\ results' = FirstN(SortByConfidence(results), search_input.top_k)
    /\ search_pc' = "returned"
    /\ UNCHANGED <<search_input, search_next>>

(***************************************************************************)
(* Template selection.  Scores are integers, ConfidenceScale times the     *)
(* float.                                                                  *)
(***************************************************************************)
\* alternatives = scored_templates[1:4]
MaxAlternatives == 3

\* A template as it relates to the request: whether its domain equals the
\* classified one, whether the classified subsystem is among its subsystems,
\* whether it shares a pattern, and how many of the five keywords occur both
\* in the requirement and in its description.
TemplateKinds ==
    {[domain |-> FALSE, subsystem |-> FALSE, pattern |-> FALSE, keywords |-> 0],
     [domain |-> FALSE, subsystem |-> FALSE, pattern |-> FALSE, keywords |-> 3],
     [domain |-> TRUE, subsystem |-> FALSE, pattern |-> FALSE, keywords |-> 0],
     [domain |-> FALSE, subsystem |-> FALSE, pattern |-> TRUE, keywords |-> 1],
     [domain |-> TRUE, subsystem |-> TRUE, pattern |-> FALSE, keywords |-> 0]}

TemplateSets == UNION {[1..n -> TemplateKinds] : n \in 1..MaxTemplates}

\* _filter_templates_by_classification: the matching templates in dict order,
\* all templates when none matches.
FilterTemplates(templates) ==
    LET matching == SelectSeq([i \in DOMAIN templates |-> i],
                              LAMBDA i : templates[i].domain \/ templates[i].subsystem
                                         \/ templates[i].pattern)
    IN  IF matching = <<>> THEN [i \in DOMAIN templates |-> i] ELSE matching

\* _calculate_template_score: 0.3, 0.3, 0.2 and min(1, matched/3) * 0.2, capped at 1.
TemplateScore(template) ==
    Min(ConfidenceScale,
        (IF template.domain THEN (3 * ConfidenceScale) \div 10 ELSE 0)
        + (IF template.subsystem THEN (3 * ConfidenceScale) \div 10 ELSE 0)
        + (IF template.pattern THEN (2 * ConfidenceScale) \div 10 ELSE 0)
        + (Min(3, template.keywords) * 2 * ConfidenceScale) \div 30)

\* A descending sort that puts a later template before an earlier one of the
\* same score.
InsertByScoreMutant(sorted, pair) ==
    LET before == SelectSeq(sorted, LAMBDA p : p.score > pair.score)
        after == SelectSeq(sorted, LAMBDA p : p.score <= pair.score)
    IN  before \o <<pair>> \o after

\* scored_templates.sort(key=score, reverse=True): stable, descending; one
\* insertion of the sort.
InsertByScore(sorted, pair) ==
    LET before == SelectSeq(sorted, LAMBDA p : p.score >= pair.score)
        after == SelectSeq(sorted, LAMBDA p : p.score < pair.score)
    IN  before \o <<pair>> \o after

RECURSIVE SortByScore(_)
SortByScore(q) ==
    IF q = <<>> THEN <<>>
    ELSE InsertByScore(SortByScore(SubSeq(q, 1, Len(q) - 1)), q[Len(q)])

NoSelection == [template |-> 0, score |-> 0, alternatives |-> <<>>]

\* The return statement: the head of the sorted list and the next three.
SelectFromSorted(sorted) ==
    IF sorted = <<>> THEN NoSelection
    ELSE [template |-> sorted[1].template, score |-> sorted[1].score,
          alternatives |-> [i \in 1..Min(MaxAlternatives, Len(sorted) - 1) |->
                               sorted[i + 1].template]]

InitSelIdle ==
    /\ sel_pc = "idle"
    /\ sel_input = <<>>
    /\ candidate_templates = <<>>
    /\ scored_templates = <<>>
    /\ sel_result = NoSelection
    /\ sel_previous = NoSelection

InitSel ==
    /\ sel_pc = "start"
    /\ sel_input \in TemplateSets
    /\ candidate_templates = <<>>
    /\ scored_templates = <<>>
    /\ sel_result = NoSelection
    /\ sel_previous = NoSelection

\* select_template, step 1
FilterByClassification ==
    /\ sel_pc = "start"
    /\ candidate_templates' = FilterTemplates(sel_input)
    /\ sel_pc' = "filtered"
    /\ UNCHANGED <<sel_input, scored_templates, sel_result, sel_previous>>

\* select_template, step 2
ScoreCandidates ==
    /\ sel_pc = "filtered"
    /\ scored_templates' = [i \in DOMAIN candidate_templates |->
                              [template |-> candidate_templates[i],
                               score |-> TemplateScore(sel_input[candidate_templates[i]])]]
    /\ sel_pc' = "scored"
    /\ UNCHANGED <<sel_input, candidate_templates, sel_result, sel_previous>>

\* select_template, step 3: sort and return
SortAndSelect ==
    /\ sel_pc = "scored"
    /\ scored_templates' = SortByScore(scored_templates)
    /\ sel_result' = SelectFromSorted(scored_templates')
    /\ sel_pc' = "done"
    /\ UNCHANGED <<sel_input, candidate_templates, sel_previous>>

\* The caller calls select_template again with the same arguments.
SelectAgain ==
    /\ sel_pc = "done"
    /\ sel_previous = NoSelection
    /\ sel_previous' = sel_result
    /\ sel_pc' = "start"
    /\ candidate_templates' = <<>>
    /\ scored_templates' = <<>>
    /\ sel_result' = NoSelection
    /\ UNCHANGED sel_input

(***************************************************************************)
(* Constraint coverage: calculate_constraint_coverage of the integrator    *)
(* and _evaluate_constraint_coverage of the quality evaluation.  A word is *)
(* identified by its number of characters; a text is the set of the words  *)
(* that occur in it; a ratio is a pair of integers; a rounded score is an  *)
(* integer number of hundredths.                                           *)
(***************************************************************************)
\* constraints[:10] and min(len(constraints), 10)
MaxCheckedConstraints == 10

\* split()[:3]
LeadingKeywords == 3

\* len(keyword) > 2 in the integrator
IntegratorMinLength == 2

\* len(keyword) > 1 in the quality evaluation
EvaluatorMinLength == 1

Words == 1..MaxWordLength

WordLength(w) == w

CoverageTypes == {"performance", "safety"}

\* constraint["content"].split(): the tokens of a constraint's content
CoverageConstraints ==
    {[type |-> "performance", content |-> <<2>>],
     [type |-> "performance", content |-> <<3>>],
     [type |-> "performance", content |-> <<1, 1, 1, 3>>],
     [type |-> "safety", content |-> <<4>>],
     [type |-> "safety", content |-> <<1, 3>>],
     [type |-> "safety", content |-> <<1>>]}

CoverageShortLists == UNION {[1..n -> CoverageConstraints] : n \in 0..MaxCovConstraints}

\* Lists longer than the evaluator looks at.
CoverageLongLists ==
    {q \o [i \in 1..MaxCheckedConstraints |-> [type |-> "safety", content |-> <<3>>]] :
        q \in [1..MaxCovConstraints -> CoverageConstraints]}

CoverageConstraintLists == CoverageShortLists \cup CoverageLongLists

CoverageSteps ==
    [type : {"stimulus"}, words : {{}} \cup {{w} : w \in Words}]

CoverageStepLists == UNION {[1..n -> CoverageSteps] : n \in 0..MaxCovSteps}

OtherSectionWords == {{}, {2}, {3}}

Ratio(num, den) == [num |-> num, den |-> den]

RatioGeq(a, b) == a.num * b.den >= b.num * a.den

\* round(num / den, 2), in hundredths; binary floating point decides a tie, so
\* both neighbours of a tie are outcomes.
RoundTo2(num, den) ==
    {h \in ((100 * num) \div den)..((100 * num) \div den + 1) :
        /\ 2 * (100 * num - h * den) <= den
        /\ 2 * (h * den - 100 * num) <= den}

\* str(test_steps).lower(): the words of the steps
StepsText(steps) == UNION {steps[i].words : i \in DOMAIN steps}

\* json.dumps(test_case, ensure_ascii=False).lower(): the words of the steps
\* and of every other section
TestCaseText(steps, other) == StepsText(steps) \cup other

\* constraint_content.split()[:3]
KeywordsOf(constraint) == FirstN(constraint.content, LeadingKeywords)

\* any(keyword in text for keyword in keywords if len(keyword) > min_length)
KeywordPresent(constraint, text, min_length) ==
    \E i \in DOMAIN KeywordsOf(constraint) :
        /\ WordLength(KeywordsOf(constraint)[i]) > min_length
        /\ KeywordsOf(constraint)[i] \in text

\* A coverage that looks at the last step only.
CoverageTextMutant(steps) ==
    IF steps = <<>> THEN {} ELSE steps[Len(steps)].words

\* The text calculate_constraint_coverage searches.
CoverageText(steps) == StepsText(steps)

\* calculate_constraint_coverage
CalculateConstraintCoverage(steps, constraints) ==
    IF constraints = <<>>
    THEN [total_coverage |-> Ratio(1, 1), by_type |-> <<>>]
    ELSE LET text == CoverageText(steps)
             covered == {i \in DOMAIN constraints :
                            KeywordPresent(constraints[i], text, IntegratorMinLength)}
             of_type(t) == {i \in DOMAIN constraints : constraints[i].type = t}
             types == {constraints[i].type : i \in DOMAIN constraints}
         IN  [total_coverage |-> Ratio(Cardinality(covered), Len(constraints)),
              by_type |-> [t \in types |->
                             Ratio(Cardinality(covered \cap of_type(t)),
                                   Cardinality(of_type(t)))]]

\* _evaluate_constraint_coverage before the rounding: covered among the first
\* ten over min(len, 10).
EvaluateConstraintCoverage(steps, other, constraints) ==
    IF constraints = <<>>
    THEN Ratio(1, 1)
    ELSE LET text == TestCaseText(steps, other)
             checked == FirstN(constraints, MaxCheckedConstraints)
             covered == {i \in DOMAIN checked :
                            KeywordPresent(checked[i], text, EvaluatorMinLength)}
         IN  Ratio(Cardinality(covered), Min(Len(constraints), MaxCheckedConstraints))

NoCoverage == [total_coverage |-> Ratio(0, 1), by_type |-> <<>>]

InitCovIdle ==
    /\ cov_pc = "idle"
    /\ cov_steps = <<>>
    /\ cov_other = {}
    /\ cov_constraints = <<>>
    /\ cov_result = NoCoverage
    /\ cov_before = NoCoverage
    /\ sub_score = 0

InitCov ==
    /\ cov_pc = "start"
    /\ cov_steps \in CoverageStepLists
    /\ cov_other \in OtherSectionWords
    /\ cov_constraints \in CoverageConstraintLists
    /\ cov_result = NoCoverage
    /\ cov_before = NoCoverage
    /\ sub_score = 0

\* The integrator's metric over the steps and the constraints.
CalculateCoverage ==
    /\ cov_pc \in {"start", "appended"}
    /\ cov_result' = CalculateConstraintCoverage(cov_steps, cov_constraints)
    /\ cov_pc' = IF cov_pc = "start" THEN "calculated" ELSE "recalculated"
    /\ UNCHANGED <<cov_steps, cov_other, cov_constraints, cov_before, sub_score>>

\* The sub-score of the quality evaluation over the same test case.
EvaluateCoverage ==
    /\ cov_pc = "calculated"
    /\ LET coverage == EvaluateConstraintCoverage(cov_steps, cov_other, cov_constraints)
       IN  sub_score' \in RoundTo2(coverage.num, coverage.den)
    /\ cov_pc' = "evaluated"
    /\ UNCHANGED <<cov_steps, cov_other, cov_constraints, cov_result, cov_before>>

\* A verification step whose action holds the leading keywords of constraint i
\* is appended to the steps.
AppendVerificationStep(i) ==
    /\ cov_pc = "evaluated"
    /\ i \in DOMAIN cov_constraints
    /\ cov_steps' = Append(cov_steps, [type |-> "verification",
                                       words |-> Range(KeywordsOf(cov_constraints[i]))])
    /\ cov_before' = cov_result
    /\ cov_pc' = "appended"
    /\ UNCHANGED <<cov_other, cov_constraints, cov_result, sub_score>>

(***************************************************************************)
(* Quality evaluation.  Scores are integers, hundredths of the float.      *)
(***************************************************************************)
\* weights, in hundredths
Weights ==
    [completeness |-> 25, executability |-> 25, constraint_coverage |-> 20,
     standard_compliance |-> 20, explanation_quality |-> 10]

\* The order in which _evaluate_quality computes the sub-scores.
MetricOrder ==
    <<"completeness", "executability", "constraint_coverage", "standard_compliance",
      "explanation_quality">>

Metrics == Range(MetricOrder)

RequiredSections == {"preconditions", "test_steps", "expected_results", "pass_criteria"}

RequiredExplanations == {"steps", "data", "constraints", "design_decisions"}

\* len(steps) >= 3
MinSpecificSteps == 3

\* min(1.0, len(steps) / 10)
FullScoreSteps == 10

\* standard_keywords: the number of keywords of each standard that has some
StandardKeywords == [s \in {"iso 26262", "iso 21434", "gb/t"} |-> IF s = "gb/t" THEN 3 ELSE 4]

\* A standard of the classification as it relates to the test case: whether
\* its name occurs in the text, and how many of its keywords do.
QualStandards ==
    {[name |-> "iso 26262", mentioned |-> TRUE, hits |-> 4],
     [name |-> "gb/t", mentioned |-> FALSE, hits |-> 2],
     [name |-> "iso 16750", mentioned |-> TRUE, hits |-> 0],
     [name |-> "iso 21434", mentioned |-> FALSE, hits |-> 1]}

QualStandardLists == UNION {[1..n -> QualStandards] : n \in 0..MaxStandards}

\* The first with_data of n steps carry data.
QualSteps(n, with_data) ==
    [i \in 1..n |-> [type |-> "stimulus", words |-> {}, data |-> i <= with_data]]

\* test_case["test_steps"]: missing, None or a list
QualTestSteps ==
    {[kind |-> "missing", steps |-> <<>>], [kind |-> "none", steps |-> <<>>]}
    \cup {[kind |-> "list", steps |-> QualSteps(n, k)] :
             n \in {0, 1, MinSpecificSteps, MaxQualSteps}, k \in {0, 1, MaxQualSteps}}

\* The sections of a dict test case; an object test case is what
\* generate_test_case returns.
QualTestCases ==
    [kind : {"dict"},
     sections : {{}, {"preconditions"}, {"preconditions", "expected_results"},
                 {"preconditions", "expected_results", "pass_criteria"}},
     test_steps : QualTestSteps,
     words : {{3}}]
    \cup [kind : {"object"}, sections : {{}}, test_steps : {[kind |-> "missing", steps |-> <<>>]},
          words : {{3}}]

QualConstraintLists ==
    {<<>>,
     <<[type |-> "performance", content |-> <<3>>]>>,
     <<[type |-> "performance", content |-> <<3>>], [type |-> "safety", content |-> <<4>>]>>,
     <<[type |-> "performance", content |-> <<2>>]>>,
     [i \in 1..(MaxCheckedConstraints + 2) |-> [type |-> "safety", content |-> <<3>>]]}

\* spec_analysis: None or an object with extracted_constraints
QualSpecAnalyses ==
    {[kind |-> "none", extracted_constraints |-> <<>>]}
    \cup [kind : {"object"}, extracted_constraints : QualConstraintLists]

\* classification: None or an object with standards
QualClassifications ==
    {[kind |-> "none", standards |-> <<>>]}
    \cup [kind : {"object"}, standards : QualStandardLists]

\* explanations: None or a dict with some of the four entries
QualExplanations ==
    {[kind |-> "none", present |-> {}]}
    \cup [kind : {"dict"},
          present : {{}, {"steps", "data"}, RequiredExplanations}]

QualInputs ==
    [test_case : QualTestCases, explanations : QualExplanations,
     classification : QualClassifications, spec_analysis : QualSpecAnalyses]

NoQualInput ==
    [test_case |-> [kind |-> "object", sections |-> {}, words |-> {3},
                    test_steps |-> [kind |-> "missing", steps |-> <<>>]],
     explanations |-> [kind |-> "none", present |-> {}],
     classification |-> [kind |-> "none", standards |-> <<>>],
     spec_analysis |-> [kind |-> "none", extracted_constraints |-> <<>>]]

\* section in test_case and test_case[section]
PresentSections(tcase) ==
    tcase.sections
    \cup (IF tcase.test_steps.kind = "list" /\ tcase.test_steps.steps # <<>>
          THEN {"test_steps"} ELSE {})

\* _evaluate_completeness before the rounding:
\* (present / 4) * 0.7 + steps_score * 0.3, over the denominator 200
Completeness(tcase) ==
    LET n == Len(tcase.test_steps.steps)
        steps_score == IF n >= MinSpecificSteps THEN Min(FullScoreSteps, n) ELSE 0
    IN  Ratio(35 * Cardinality(PresentSections(tcase) \cap RequiredSections)
              + 6 * steps_score, 200)

\* _evaluate_executability before the rounding
Executability(tcase) ==
    LET steps == tcase.test_steps.steps
    IN  IF tcase.test_steps.kind = "missing" \/ steps = <<>>
        THEN Ratio(0, 1)
        ELSE Ratio(Cardinality({i \in DOMAIN steps : steps[i].data}), Len(steps))

\* A sum that is not capped.
CapAtOneMutant(ratio) == ratio

\* min(compliance_score, 1.0)
CapAtOne(ratio) == IF ratio.num > ratio.den THEN Ratio(ratio.den, ratio.den) ELSE ratio

\* What one standard adds to the compliance score, over the denominator 24 * n.
RECURSIVE ComplianceSum(_)
ComplianceSum(standards) ==
    IF standards = <<>> THEN 0
    ELSE LET s == standards[Len(standards)]
         IN  ComplianceSum(SubSeq(standards, 1, Len(standards) - 1))
             + (IF s.mentioned THEN 24 ELSE 0)
             + (IF s.name \in DOMAIN StandardKeywords
                THEN (12 * s.hits) \div StandardKeywords[s.name] ELSE 0)

\* _evaluate_standard_compliance before the rounding
StandardCompliance(standards) ==
    IF standards = <<>> THEN Ratio(1, 1)
    ELSE CapAtOne(Ratio(ComplianceSum(standards), 24 * Len(standards)))

\* _evaluate_explanation_quality before the rounding
ExplanationQuality(explanations) ==
    IF explanations.kind = "none" \/ explanations.present = {}
    THEN Ratio(0, 1)
    ELSE Ratio(Cardinality(explanations.present \cap RequiredExplanations),
               Cardinality(RequiredExplanations))

\* The sub-score of a metric before the rounding.
SubScore(metric, input) ==
    CASE metric = "completeness" -> Completeness(input.test_case)
      [] metric = "executability" -> Executability(input.test_case)
      [] metric = "constraint_coverage" ->
             EvaluateConstraintCoverage(input.test_case.test_steps.steps,
                                        input.test_case.words,
                                        input.spec_analysis.extracted_constraints)
      [] metric = "standard_compliance" -> StandardCompliance(input.classification.standards)
      [] metric = "explanation_quality" -> ExplanationQuality(input.explanations)

\* The computation of a sub-score raises: membership in an object that is not
\* a container, iteration over None, an attribute of None.
SubScoreRaises(metric, input) ==
    CASE metric = "completeness" -> input.test_case.kind = "object"
      [] metric = "executability" -> input.test_case.test_steps.kind = "none"
      [] metric = "constraint_coverage" -> input.spec_analysis.kind = "none"
      [] metric = "standard_compliance" -> input.classification.kind = "none"
      [] metric = "explanation_quality" -> FALSE

\* total_score: the sum of score * weight over the breakdown, in 1/10000
RECURSIVE WeightedSum(_, _)
WeightedSum(scores, metrics) ==
    IF metrics = {} THEN 0
    ELSE LET m == CHOOSE x \in metrics : TRUE
         IN  scores[m] * Weights[m] + WeightedSum(scores, metrics \ {m})

\* _generate_improvement_recommendations: the metrics under their thresholds
Recommendations(scores) ==
    {m \in DOMAIN scores :
        \/ m = "completeness" /\ scores[m] < 80
        \/ m = "executability" /\ scores[m] < 70
        \/ m = "constraint_coverage" /\ scores[m] < 80
        \/ m = "explanation_quality" /\ scores[m] < 60}

NextMetric(metric) ==
    IF metric = MetricOrder[Len(MetricOrder)] THEN "combine"
    ELSE MetricOrder[(CHOOSE i \in DOMAIN MetricOrder : MetricOrder[i] = metric) + 1]

InitQualIdle ==
    /\ qual_pc = "idle"
    /\ qual_input = NoQualInput
    /\ breakdown = <<>>
    /\ quality_score = 0
    /\ recommendations = {}
    /\ qual_error = FALSE

InitQual ==
    /\ qual_pc = MetricOrder[1]
    /\ qual_input \in QualInputs
    /\ breakdown = <<>>
    /\ quality_score = 0
    /\ recommendations = {}
    /\ qual_error = FALSE

\* One sub-score is computed, rounded and stored in the breakdown.
EvaluateSubScore(metric) ==
    /\ qual_pc = metric
    /\ ~SubScoreRaises(metric, qual_input)
    /\ \E score \in RoundTo2(SubScore(metric, qual_input).num, SubScore(metric, qual_input).den) :
           breakdown' = [m \in DOMAIN breakdown \cup {metric} |->
                            IF m = metric THEN score ELSE breakdown[m]]
    /\ qual_pc' = NextMetric(metric)
    /\ UNCHANGED <<qual_input, quality_score, recommendations, qual_error>>

\* The computation of a sub-score raises: the except clause records the error
\* and the metrics are returned as they are.
ScoringRaises(metric) ==
    /\ qual_pc = metric
    /\ SubScoreRaises(metric, qual_input)
    /\ qual_error' = TRUE
    /\ qual_pc' = "returned"
    /\ UNCHANGED <<qual_input, breakdown, quality_score, recommendations>>

\* The weighted sum, its rounding and the recommendations.
CombineScores ==
    /\ qual_pc = "combine"
    /\ quality_score' \in RoundTo2(WeightedSum(breakdown, DOMAIN breakdown), 10000)
    /\ recommendations' = Recommendations(breakdown)
    /\ qual_pc' = "returned"
    /\ UNCHANGED <<qual_input, breakdown, qual_error>>

(***************************************************************************)
(* Specification analysis: analyze up to the risk assessment.  A text is   *)
(* modelled by what the rules find in it.                                  *)
(***************************************************************************)
\* The keys of constraint_patterns, and "other".
ConstraintTypeNames ==
    {"performance", "safety", "reliability", "environmental", "compliance", "other"}

PriorityNames == {"high", "medium", "low"}

\* The test implications of a known standard.
ImplicationsPerStandard == 5

StandardImplications ==
    <<"fault injection", "safety mechanisms", "asil level", "coverage report", "safe state">>

\* A constraint text of the service: the type whose pattern it matches and the
\* priority its keywords stand for.
ConstraintTexts == [matches : {"safety", "other"}, keywords : {"high", "low"}]

\* _classify_constraint_type
ClassifyConstraintType(text) == text.matches

\* _determine_constraint_priority
DetermineConstraintPriority(text) == text.keywords

\* The outcomes of the requirement-analysis call: the call raises, the text is
\* not JSON, the JSON is the requested object, a JSON array, or an object whose
\* technical_constraints are not strings.
RequirementAnswers ==
    [status : {"error", "not_json"}, shape : {"none"}, technical_constraints : {<<>>}]
    \cup [status : {"json"}, shape : {"requested"},
          technical_constraints : UNION {[1..n -> ConstraintTexts] : n \in 0..MaxAnswerItems}]
    \cup [status : {"json"}, shape : {"array", "values"}, technical_constraints : {<<>>}]

\* The dict of empty lists of the except clause.
DefaultRequirementAnalysis ==
    [status |-> "default", shape |-> "requested", technical_constraints |-> <<>>]

\* _analyze_requirement: the parsed JSON as it is, the defaults when the call
\* or the parse raised.
AnalyzeRequirementResult(answer) ==
    IF answer.status = "json" THEN answer ELSE DefaultRequirementAnalysis

\* An item without a "content" entry.
NoContent == [matches |-> "", keywords |-> ""]

\* An item of the constraint-extraction answer: its "content" text (or none),
\* its "type" and its "priority" ("" when absent).
AnswerItems ==
    [content : {NoContent, [matches |-> "safety", keywords |-> "high"]},
     type : {"safety", "bogus"}, priority : {"high", "urgent", ""}]

\* The outcomes of the constraint-extraction call.
ExtractionAnswers ==
    [status : {"error", "not_json"}, items : {<<>>}]
    \cup [status : {"json"}, items : UNION {[1..n -> AnswerItems] : n \in 0..MaxAnswerItems}]

\* Constraint(id, content=item["content"], type=item["type"],
\* priority=item.get("priority", "medium"))
ItemConstraint(item, constraint_id) ==
    [id |-> constraint_id, content |-> item.content, source |-> "service", type |-> item.type,
     priority |-> IF item.priority = "" THEN "medium" ELSE item.priority]

\* _extract_constraints_with_ai: no constraint when the call, the parse or an
\* item raises.
ExtractConstraintsWithAI(answer, existing_constraints) ==
    IF answer.status # "json" \/ \E i \in DOMAIN answer.items : answer.items[i].content = NoContent
    THEN <<>>
    ELSE [i \in DOMAIN answer.items |->
             ItemConstraint(answer.items[i], Len(existing_constraints) + i)]

\* _extract_constraints, parts 1 and 3: the constraints of the requirement
\* analysis and of the selected standards.
RuleConstraints(analysis, input) ==
    [i \in DOMAIN analysis.technical_constraints |->
        [id |-> i, content |-> analysis.technical_constraints[i], source |-> "requirement",
         type |-> ClassifyConstraintType(analysis.technical_constraints[i]),
         priority |-> DetermineConstraintPriority(analysis.technical_constraints[i])]]
    \o [i \in 1..(IF input.standard_selected THEN ImplicationsPerStandard ELSE 0) |->
           [id |-> Len(analysis.technical_constraints) + i,
            content |-> [matches |-> StandardImplications[i], keywords |-> "high"],
            source |-> "standard", type |-> "compliance", priority |-> "high"]]

AnInputs == [standard_selected : BOOLEAN]

InitAnIdle ==
    /\ an_pc = "idle"
    /\ an_input = [standard_selected |-> FALSE]
    /\ requirement_analysis = DefaultRequirementAnalysis
    /\ all_constraints = <<>>
    /\ an_raised_by = "none"

InitAn ==
    /\ an_pc = "start"
    /\ an_input \in AnInputs
    /\ requirement_analysis = DefaultRequirementAnalysis
    /\ all_constraints = <<>>
    /\ an_raised_by = "none"

\* analyze, step 1: _analyze_requirement with the outcome of its call.
AnalyzeRequirement(answer) ==
    /\ an_pc = "start"
    /\ requirement_analysis' = AnalyzeRequirementResult(answer)
    /\ an_pc' = "analyzed"
    /\ UNCHANGED <<an_input, all_constraints, an_raised_by>>

\* analyze, steps 2 to 4: _extract_constraints with the outcome of its call.
\* requirement_analysis.get raises on a value that is not a dict, and
\* tech_constraint.lower() on an entry that is not a string; neither is guarded.
ExtractConstraints(answer) ==
    /\ an_pc = "analyzed"
    /\ IF requirement_analysis.shape # "requested"
       THEN /\ an_pc' = "raised"
            /\ an_raised_by' = "response"
            /\ UNCHANGED all_constraints
       ELSE /\ an_pc' = "extracted"
            /\ all_constraints' =
                   RuleConstraints(requirement_analysis, an_input)
                   \o ExtractConstraintsWithAI(answer,
                                               RuleConstraints(requirement_analysis, an_input))
            /\ UNCHANGED an_raised_by
    /\ UNCHANGED <<an_input, requirement_analysis>>

\* analyze, steps 5 to 7: the test requirements and the checklist are built,
\* then the f-string of the _assess_risks prompt raises ValueError (a dict
\* literal in single braces: an invalid format specifier) before the call and
\* outside its try.
AssessRisks ==
    /\ an_pc = "extracted"
    /\ an_pc' = "raised"
    /\ an_raised_by' = "prompt"
    /\ UNCHANGED <<an_input, requirement_analysis, all_constraints>>

(***************************************************************************)
(* Cancellation of a handler task, and stop().                             *)
(***************************************************************************)
InitStopIdle == stop_pc = "none"

\* handler.cancel(): CancelledError is raised at the await the task is at.  It
\* is not an Exception, so neither _process_request nor _notify_callback
\* catches it; _task_handler's `except asyncio.CancelledError: break` ends the
\* task without task_done() and without a result for the request it held.
CancelHandler(h) ==
    /\ handler_pc[h] \in {"get", "process", "notify"}
    /\ Cardinality({g \in HandlerIds : handler_pc[g] = "cancelled"}) < MaxCancels
    /\ handler_pc' = [handler_pc EXCEPT ![h] = "cancelled"]
    /\ handler_request' = [handler_request EXCEPT ![h] = NoRequest]
    /\ UNCHANGED <<task_handlers, task_queue, unfinished_tasks, task_results, accepted,
                   take_log, stop_pc>>

\* stop(): await self.task_queue.join() begins.
StopBegins ==
    /\ task_handlers # {}
    /\ stop_pc = "none"
    /\ stop_pc' = "joining"
    /\ UNCHANGED wfVars

\* asyncio.Queue.join returns when the count of unfinished tasks is zero.
StopReturns ==
    /\ stop_pc = "joining"
    /\ unfinished_tasks = 0
    /\ stop_pc' = "returned"
    /\ UNCHANGED wfVars

(***************************************************************************)
(* Step data generation: _generate_step_data and _generate_value.          *)
(* An action text is modelled by the words the code looks for in it.  A    *)
(* number is an integer or a ratio [num, den]; a dict is a function on its *)
(* keys.  A call returns one of a set of outcomes [raised, value].         *)
(***************************************************************************)
DataRuns == 2

TestStepTypes == {"setup", "stimulus", "verification", "delay", "record", "cleanup"}

\* _load_data_generation_rules; precision is the literal of the source.
data_generation_rules ==
    [voltage     |-> [normal_range |-> <<9, 16>>, boundary_values |-> {6, 9, 12, 16, 18},
                      precision |-> "0.1"],
     current     |-> [normal_range |-> <<0, 100>>, boundary_values |-> {0, 50, 100, 150, 200},
                      precision |-> "0.1"],
     temperature |-> [normal_range |-> <<0 - 40, 85>>,
                      boundary_values |-> {0 - 40, 0 - 20, 0, 25, 60, 85, 105},
                      precision |-> "1"],
     time        |-> [normal_range |-> <<10, 1000>>, boundary_values |-> {1, 10, 100, 500, 1000, 5000},
                      precision |-> "1"]]

Raised == [raised |-> TRUE, value |-> <<>>]

Returned(v) == [raised |-> FALSE, value |-> v]

\* (min_val + max_val) / 2
Midpoint(range) == [num |-> range[1] + range[2], den |-> 2]

\* round(x, ndigits): ndigits must be an int, a float raises TypeError.  A
\* multiple of one half has one decimal digit, so one digit keeps it.
Round(x, precision) == IF precision = "1" THEN Returned(x) ELSE Raised

\* random.choice(seq): any element.
RandomChoice(values) == {Returned(v) : v \in values}

\* _generate_value for the data types its callers pass, which all have rules.
GenerateValue(data_type, value_type) ==
    LET rules == data_generation_rules[data_type] IN
    IF value_type = "normal"
    THEN {Round(Midpoint(rules.normal_range), rules.precision)}
    ELSE RandomChoice(rules.boundary_values)

ActionTexts ==
    [signal : BOOLEAN,      \* contains "信号" or "发送"
     fault  : BOOLEAN,      \* contains "故障" or "注入"
     topic  : {"can", "voltage", "temperature", "none"}]

InferSignalType(action) ==
    CASE action.topic = "can" -> "CAN"
      [] action.topic = "voltage" -> "voltage"
      [] action.topic = "temperature" -> "temperature"
      [] OTHER -> "control"

InferFaultType(action) == IF action.topic = "can" THEN "communication" ELSE "generic"

GenerateMonitoringPoints(action) ==
    <<"state", "error code", "response time">>
    \o (IF action.topic = "voltage" THEN <<"supply voltage", "current">> ELSE <<>>)
    \o (IF action.topic = "temperature" THEN <<"ambient", "chip">> ELSE <<>>)
    \o (IF action.topic = "can" THEN <<"CAN state", "frame rate">> ELSE <<>>)

GenerateStepData(step_type, action) ==
    CASE step_type = "setup" ->
           {IF t.raised \/ v.raised THEN Raised
            ELSE Returned([environment |-> [temperature |-> t.value, voltage |-> v.value],
                           initial_state |-> "ready"]) :
              t \in GenerateValue("temperature", "normal"),
              v \in GenerateValue("voltage", "normal")}
      [] step_type = "stimulus" /\ action.signal ->
           {IF s.raised \/ d.raised THEN Raised
            ELSE Returned([signal_type |-> InferSignalType(action), signal_value |-> s.value,
                           duration |-> d.value]) :
              s \in GenerateValue("voltage", "boundary"),
              d \in GenerateValue("time", "normal")}
      [] step_type = "stimulus" /\ ~action.signal /\ action.fault ->
           {IF d.raised THEN Raised
            ELSE Returned([fault_type |-> InferFaultType(action), injection_method |-> "software",
                           duration |-> d.value]) :
              d \in GenerateValue("time", "normal")}
      [] step_type = "verification" ->
           {IF d.raised THEN Raised
            ELSE Returned([monitoring_points |-> GenerateMonitoringPoints(action),
                           sampling_rate |-> 100, duration |-> d.value]) :
              d \in GenerateValue("time", "normal")}
      [] step_type = "delay" ->
           {IF d.raised THEN Raised
            ELSE Returned([duration |-> d.value, reason |-> "settle"]) :
              d \in GenerateValue("time", "normal")}
      [] step_type = "record" ->
           {Returned([data_points |-> <<"response time", "state", "error code">>,
                      storage_format |-> "CSV", sample_count |-> 100])}
      [] OTHER -> {Returned(<<>>)}

DataInputs == [step_type : TestStepTypes, action : ActionTexts]

NoDataInput == [step_type |-> "setup", action |-> [signal |-> FALSE, fault |-> FALSE, topic |-> "none"]]

InitDataIdle ==
    /\ data_pc = "idle"
    /\ data_input = NoDataInput
    /\ data_runs = <<>>

InitData ==
    /\ data_pc = "running"
    /\ data_input \in DataInputs
    /\ data_runs = <<>>

\* One run of _generate_step_data on the input.
RunGenerateStepData ==
    /\ data_pc = "running"
    /\ \E outcome \in GenerateStepData(data_input.step_type, data_input.action) :
          data_runs' = Append(data_runs, outcome)
    /\ data_pc' = IF Len(data_runs) + 1 = DataRuns THEN "done" ELSE "running"
    /\ UNCHANGED data_input

(***************************************************************************)
(* integrate on any step list that is in order: dicts, as its signature    *)
(* declares, or the TestStep objects the Case Generator passes.            *)
(***************************************************************************)
StepKinds == {"dict", "object"}

StepsOfKind(plan, kind) ==
    [i \in DOMAIN plan |-> [uid |-> i, step_type |-> plan[i], step_number |-> i, kind |-> kind]]

\* setup steps, then the others, then cleanup steps.
InOrder(plan) ==
    \A i, j \in DOMAIN plan :
       i < j => /\ plan[j] = "setup" => plan[i] = "setup"
                /\ plan[i] = "cleanup" => plan[j] = "cleanup"

IntInputs ==
    [steps : {StepsOfKind(plan, kind) : plan \in {p \in Plans(InputStepTypes) : InOrder(p)},
                                        kind \in StepKinds},
     constraints : ConstraintLists]

NoIntInput == [steps |-> <<>>, constraints |-> <<>>]

InitIntIdle ==
    /\ int_pc = "idle"
    /\ int_input = NoIntInput
    /\ int_result = <<>>

InitInt ==
    /\ int_pc = "start"
    /\ int_input \in IntInputs
    /\ int_result = <<>>

\* integrate(test_steps, constraints)
RunIntegrate ==
    /\ int_pc = "start"
    /\ int_result' = Integrate(int_input.steps, int_input.constraints)
    /\ int_pc' = "done"
    /\ UNCHANGED int_input

(***************************************************************************)
(* The HTTP session of DeepSeekClient and the code that holds the client:  *)
(* the workflow, which builds it in _init_components, and the context      *)
(* manager use of example_usage.                                           *)
(***************************************************************************)
\* The calls of one request, in the order of _process_request: the analyzer,
\* the classifier, the case generator.
InferenceCallers == <<"spec_analyzer", "classifier", "case_generator">>

\* What an open session answers a post with.
PostOutcomes == {"answered", "api_error", "network_error"}

\* connect(): a new session when there is none or it is closed.
Connect(s) == IF s = "none" \/ s = "closed" THEN "open" ELSE s

\* close(): closes an open session.
Close(s) == IF s = "open" THEN "closed" ELSE s

\* chat_completion's self.session.post(...): on None the attribute access
\* raises AttributeError, on a closed session aiohttp raises RuntimeError;
\* neither is an aiohttp.ClientError, so both leave chat_completion.
SessionPost(s, outcome) ==
    CASE s = "none" -> "AttributeError"
      [] s = "closed" -> "RuntimeError"
      [] OTHER -> outcome

InitSessIdle ==
    /\ session = "none"
    /\ client_user = "idle"
    /\ user_pc = "constructed"
    /\ call_log = <<>>

\* DeepSeekClient.__init__: self.session = None.
InitSess ==
    /\ session = "none"
    /\ client_user \in {"workflow", "context_manager"}
    /\ user_pc = "constructed"
    /\ call_log = <<>>

\* __aenter__
Aenter ==
    /\ client_user = "context_manager"
    /\ user_pc = "constructed"
    /\ session' = Connect(session)
    /\ user_pc' = "body"
    /\ UNCHANGED <<client_user, call_log>>

\* A chat_completion call in the body of the async with block.
ChatCompletionInBody(outcome) ==
    /\ client_user = "context_manager"
    /\ user_pc = "body"
    /\ Len(call_log) < MaxSessionCalls
    /\ call_log' = Append(call_log, [by |-> "example_usage", session |-> session,
                                     outcome |-> SessionPost(session, outcome)])
    /\ UNCHANGED <<session, client_user, user_pc>>

\* __aexit__
Aexit ==
    /\ client_user = "context_manager"
    /\ user_pc = "body"
    /\ session' = Close(session)
    /\ user_pc' = "exited"
    /\ UNCHANGED <<client_user, call_log>>

\* A chat_completion call of a component of the workflow, which got the
\* client from _init_components.  Between the construction and the call
\* the workflow calls neither connect nor __aenter__.
WorkflowInferenceCall(outcome) ==
    /\ client_user = "workflow"
    /\ Len(call_log) < MaxSessionCalls
    /\ call_log' = Append(call_log,
                          [by |-> InferenceCallers[(Len(call_log) % Len(InferenceCallers)) + 1],
                           session |-> session,
                           outcome |-> SessionPost(session, outcome)])
    /\ UNCHANGED <<session, client_user, user_pc>>

(***************************************************************************)
(* Specification of the knowledge store: add and import calls.             *)
(***************************************************************************)
KBOnly == UNCHANGED <<usageVars, genVars, wfVars, clsVars, callVars, batchVars,
        searchVars,
        selVars,
        covVars,
        qualVars,
        anVars,
        stopVars,
        dataVars,
        intVars,
        sessVars>>

AddStep ==
    /\ import_pc = "idle"
    /\ \E id \in Ids, type \in InputTypes, content \in Contents, f \in AddFailures :
          AddKnowledgeItem(id, type, content, f)
    /\ UNCHANGED import_pc
    /\ KBOnly

ImportItemStep ==
    /\ \E item \in ImportItemSet : ImportItem(item)
    /\ KBOnly

ImportCommitStep == ImportCommit /\ KBOnly

NextKB == AddStep \/ ImportItemStep \/ ImportCommitStep

InitSpecKB == InitKB /\ InitUsageIdle /\ InitGenIdle /\ InitWF /\ InitClsIdle /\ InitCallIdle /\ InitBatchIdle
    /\ InitSearchIdle
    /\ InitSelIdle
    /\ InitCovIdle
    /\ InitQualIdle
    /\ InitAnIdle
    /\ InitStopIdle
    /\ InitDataIdle
    /\ InitIntIdle
    /\ InitSessIdle

SpecKB == InitSpecKB /\ [][NextKB]_vars

\* Every record of the relational index has exactly one vector entry, in the
\* collection of its type, and every vector entry has a record.
IndexConsistent ==
    /\ \A id \in Ids :
          relational_db[id] # NoRecord =>
             /\ {c \in CollectionNames : id \in vector_db[c]}
                   = {get_collection_name(relational_db[id].type)}
    /\ \A c \in CollectionNames : \A id \in vector_db[c] : relational_db[id] # NoRecord

\* C1: after any sequence of add_knowledge_item and import_knowledge calls, failed
\* ones included, every id of the relational index has exactly one entry in the
\* vector index, in the collection of its type, and no vector entry lacks a record.
C1_IndexesAgreeAfterEveryCall == import_pc = "idle" => IndexConsistent

\* C2: when add_knowledge_item has committed the record and the embedding or the
\* vector write then fails, the call raises, the relational index holds no record
\* with that id, and every other record of both indexes is unchanged.
C2_AddRollsBackOnSemanticFailure ==
    [][(kb_last'.op = "add" /\ kb_last'.failure \in {"embed", "write"}) =>
          /\ kb_last'.raised
          /\ relational_db'[kb_last'.id] = NoRecord
          /\ \A j \in Ids \ {kb_last'.id} : relational_db'[j] = relational_db[j]
          /\ vector_db' = vector_db]_vars

\* An add that failed at the embedding or the vector write, beside another record.
C2_Witness ==
    /\ kb_last.op = "add"
    /\ kb_last.failure \in {"embed", "write"}
    /\ kb_last.raised
    /\ relational_db[kb_last.id] = NoRecord
    /\ \E j \in Ids : relational_db[j] # NoRecord /\ j \in vector_db["standards"]

(***************************************************************************)
(* Specification of the usage statistics: record_usage calls of several    *)
(* callers on one event loop.                                              *)
(***************************************************************************)
UsageOnly == UNCHANGED <<vector_db, collections, kb_last, import_pc, genVars, wfVars, clsVars,
                        callVars, batchVars,
        searchVars,
        selVars,
        covVars,
        qualVars,
        anVars,
        stopVars,
        dataVars,
        intVars,
        sessVars>>

RecordUsageReadStep ==
    /\ \E c \in Callers, id \in Ids, success \in BOOLEAN : RecordUsageRead(c, id, success)
    /\ UsageOnly

RecordUsageCommitStep ==
    /\ \E c \in Callers : RecordUsageCommit(c)
    /\ UsageOnly

NextUsage == RecordUsageReadStep \/ RecordUsageCommitStep

InitSpecUsage == InitUsage /\ InitGenIdle /\ InitWF /\ InitClsIdle /\ InitCallIdle /\ InitBatchIdle
    /\ InitSearchIdle
    /\ InitSelIdle
    /\ InitCovIdle
    /\ InitQualIdle
    /\ InitAnIdle
    /\ InitStopIdle
    /\ InitDataIdle
    /\ InitIntIdle
    /\ InitSessIdle

SpecUsage == InitSpecUsage /\ [][NextUsage]_vars

\* The committed calls on one id, in commit order.
CallsOn(id) == SelectSeq(usage_log, LAMBDA e : e.id = id)

SuccessesOn(id) == SelectSeq(usage_log, LAMBDA e : e.id = id /\ e.success)

\* C5: from usage_count = 0 and success_rate = 0, after n record_usage calls of
\* which s succeeded, usage_count = n and success_rate = s/n; a call on an unknown
\* id changes nothing.
C5_UsageCountAndRate ==
    \A id \in Ids :
       IF id = UnknownId
       THEN relational_db[id] = NoRecord
       ELSE /\ relational_db[id].usage_count = Len(CallsOn(id))
            /\ relational_db[id].success_rate = Rat(Len(SuccessesOn(id)), Len(CallsOn(id)))

\* Three calls on one item, two of them successful, and a call on the unknown id.
C5_Witness ==
    /\ \E id \in Ids : /\ relational_db[id] # NoRecord
                       /\ relational_db[id].usage_count = 3
                       /\ relational_db[id].success_rate = <<2, 3>>
                       /\ Len(SuccessesOn(id)) = 2

\* The record a serial run of the calls leaves: the update applied call by call.
RECURSIVE ReplayUsage(_, _)
ReplayUsage(record, calls) ==
    IF calls = <<>> THEN record
    ELSE ReplayUsage(RecordUsageUpdate(record, Head(calls).success), Tail(calls))

\* C6: concurrent record_usage calls on one id take effect one at a time: no
\* increment is lost and the record is the one a serial order of the calls leaves.
C6_UsageUpdatesSerialized ==
    \A id \in Ids \ {UnknownId} :
       /\ relational_db[id] = ReplayUsage(KnowledgeRecord("standard", "a"), CallsOn(id))
       /\ \A c, d \in Callers :
             (usage_pc[c] = "read" /\ usage_pc[d] = "read") => c = d

\* Two callers have each committed a call on the same item.
C6_Witness ==
    \E i, j \in 1..Len(usage_log) :
       /\ i < j
       /\ usage_log[i].id = usage_log[j].id
       /\ usage_log[i].id # UnknownId
       /\ usage_log[i].caller # usage_log[j].caller
       /\ relational_db[usage_log[i].id].usage_count >= 2

(***************************************************************************)
(* Specification of the test-case generator: one generate_test_case call   *)
(* for each input.                                                         *)
(***************************************************************************)
GenOnly == UNCHANGED <<kbVars, usageVars, wfVars, clsVars, callVars, batchVars,
        searchVars,
        selVars,
        covVars,
        qualVars,
        anVars,
        stopVars,
        dataVars,
        intVars,
        sessVars>>

GenerateStepsStep == GenerateSteps /\ GenOnly

IntegrateConstraintsStep == IntegrateConstraints /\ GenOnly

BuildTestCaseStep == BuildTestCase /\ GenOnly

NextGen == GenerateStepsStep \/ IntegrateConstraintsStep \/ BuildTestCaseStep

InitSpecGen == InitKB /\ InitUsageIdle /\ InitGen /\ InitWF /\ InitClsIdle /\ InitCallIdle /\ InitBatchIdle
    /\ InitSearchIdle
    /\ InitSelIdle
    /\ InitCovIdle
    /\ InitQualIdle
    /\ InitAnIdle
    /\ InitStopIdle
    /\ InitDataIdle
    /\ InitIntIdle
    /\ InitSessIdle

SpecGen == InitSpecGen /\ [][NextGen]_vars

\* step_number is the place in the list, setup steps come before every other
\* step and cleanup steps after every other step.
CanonicalSteps(steps) ==
    /\ \A i \in DOMAIN steps : steps[i].step_number = i
    /\ \A i, j \in DOMAIN steps :
          (steps[i].step_type = "setup" /\ steps[j].step_type # "setup") => i < j
    /\ \A i, j \in DOMAIN steps :
          (steps[i].step_type = "cleanup" /\ steps[j].step_type # "cleanup") => j < i

\* C3: every TestCase returned by generate_test_case (template, inference-service
\* and default-steps path) has test_steps numbered 1..N in list order, the setup
\* steps first and the cleanup steps last.
C3_ReturnedStepsCanonical ==
    test_case.status = "returned" => CanonicalSteps(test_case.test_steps)

\* A returned case whose plan came from the service out of order and with the
\* same number on every step, and for which the integrator synthesized a step.
C3_Witness ==
    /\ test_case.status = "returned"
    /\ gen_input.template = "no_step_templates"
    /\ ~gen_input.dense
    /\ Len(gen_input.plan) = 3
    /\ gen_input.plan[1] = "cleanup"
    /\ gen_input.plan[3] = "setup"
    /\ Len(test_case.test_steps) = 3
    /\ Len(integrated) = 4

\* The verification steps the Constraint Integrator synthesized.
SynthesizedSteps == {integrated[i] : i \in {k \in DOMAIN integrated : integrated[k].kind = "dict"}}

\* C24: after generate_test_case with constraints that match an integration
\* rule, every verification step the Constraint Integrator synthesized is an
\* element of the returned TestCase.test_steps, and TestCase.constraints holds
\* the constraint records of the request, not test steps.
C24_SynthesizedStepsAreInTheTestCase ==
    (/\ test_case.status = "returned"
     /\ \E i \in DOMAIN gen_input.constraints :
           gen_input.constraints[i].type \in MappingRuleTypes /\ gen_input.constraints[i].matches) =>
        /\ SynthesizedSteps \subseteq Range(test_case.test_steps)
        /\ test_case.constraints = gen_input.constraints

(***************************************************************************)
(* Specification of the request workflow.  The fair specification adds what *)
(* the event loop gives every handler task: a task that can run is run, and *)
(* every stage await returns or raises (the service calls carry a timeout). *)
(***************************************************************************)
WFOnly == UNCHANGED <<kbVars, usageVars, genVars, clsVars, callVars, batchVars,
        searchVars,
        selVars,
        covVars,
        qualVars,
        anVars,
        stopVars,
        dataVars,
        intVars,
        sessVars>>

StartStep == Start /\ WFOnly

SubmitRequestStep == (\E callback_url \in BOOLEAN : SubmitRequest(callback_url)) /\ WFOnly

HandlerGetStep == (\E h \in HandlerIds : HandlerGet(h)) /\ WFOnly

StagesPassStep == (\E h \in HandlerIds : StagesPass(h)) /\ WFOnly

StageRaisesStep == (\E h \in HandlerIds, stage \in 1..NumStages : StageRaises(h, stage)) /\ WFOnly

HandlerNotifiedStep == (\E h \in HandlerIds : HandlerNotified(h)) /\ WFOnly

NextWF ==
    \/ StartStep
    \/ SubmitRequestStep
    \/ HandlerGetStep
    \/ StagesPassStep
    \/ StageRaisesStep
    \/ HandlerNotifiedStep

InitSpecWF == InitKB /\ InitUsageIdle /\ InitGenIdle /\ InitWF /\ InitClsIdle /\ InitCallIdle /\ InitBatchIdle
    /\ InitSearchIdle
    /\ InitSelIdle
    /\ InitCovIdle
    /\ InitQualIdle
    /\ InitAnIdle
    /\ InitStopIdle
    /\ InitDataIdle
    /\ InitIntIdle
    /\ InitSessIdle

SpecWF == InitSpecWF /\ [][NextWF]_vars

HandlersRun == HandlerGetStep \/ StagesPassStep \/ StageRaisesStep \/ HandlerNotifiedStep

FairSpecWF == SpecWF /\ WF_vars(HandlersRun)

\* C4: every request accepted while the handlers run eventually has a
\* GenerationResult under its id in task_results, and a request whose stage
\* raised has one with success=False and an error text.
C4_EveryRequestGetsResult ==
    /\ \A id \in RequestIds :
          (accepted >= id /\ task_handlers # {}) ~> (task_results[id].request_id = id)
    /\ [][\A h \in HandlerIds, stage \in 1..NumStages :
            (StageRaises(h, stage) /\ WFOnly) =>
                LET result == task_results'[handler_request[h].id]
                IN  result.request_id = handler_request[h].id /\ ~result.success /\ result.error]_vars

\* Every accepted request has its result, one after a raised stage and one after
\* all stages passed.
C4_Witness ==
    /\ accepted = MaxRequests
    /\ \A id \in RequestIds : task_results[id].request_id = id
    /\ \E id \in RequestIds : ~task_results[id].success /\ task_results[id].error
    /\ \E id \in RequestIds : task_results[id].success

InProcess == {h \in HandlerIds : handler_pc[h] \in {"process", "notify"}}

\* C8: at most max_concurrent_tasks requests are in process at any moment, the
\* requests leave the queue in submission order, and every submitted request is
\* taken by one handler, once.
C8_BoundedPoolFifoExactlyOnce ==
    /\ Cardinality(InProcess) <= MaxConcurrentTasks
    /\ \A i \in DOMAIN take_log : take_log[i].request = i
    /\ \A h \in InProcess :
          \E i \in DOMAIN take_log :
              take_log[i] = [request |-> handler_request[h].id, handler |-> h]
    /\ \A h, g \in InProcess : handler_request[h].id = handler_request[g].id => h = g
    /\ Len(take_log) + Len(task_queue) = accepted
    /\ \A id \in RequestIds :
          task_results[id] # NoResult => \E i \in DOMAIN take_log : take_log[i].request = id

\* All handlers busy at once with a request still waiting in the queue.
C8_Witness ==
    /\ Cardinality(InProcess) = MaxConcurrentTasks
    /\ Len(task_queue) >= 1
    /\ Len(take_log) = MaxConcurrentTasks

(***************************************************************************)
(* Specification of the classifier: one classify call for each requirement. *)
(***************************************************************************)
ClsOnly == UNCHANGED <<kbVars, usageVars, genVars, wfVars, callVars, batchVars,
        searchVars,
        selVars,
        covVars,
        qualVars,
        anVars,
        stopVars,
        dataVars,
        intVars,
        sessVars>>

RuleScoringStep == RuleScoring /\ ClsOnly

AIEnhancementStep == (\E outcome \in AIResponses \cup {AIFailure} : AIEnhancement(outcome)) /\ ClsOnly

KnowledgeValidationStep ==
    (\E outcome \in KnowledgeHits \cup {KnowledgeRaised, KnowledgeEmpty} : KnowledgeValidation(outcome)) /\ ClsOnly

FinalConstructionStep == FinalConstruction /\ ClsOnly

NextCls == RuleScoringStep \/ AIEnhancementStep \/ KnowledgeValidationStep \/ FinalConstructionStep

InitSpecCls == InitKB /\ InitUsageIdle /\ InitGenIdle /\ InitWF /\ InitCls /\ InitCallIdle /\ InitBatchIdle
    /\ InitSearchIdle
    /\ InitSelIdle
    /\ InitCovIdle
    /\ InitQualIdle
    /\ InitAnIdle
    /\ InitStopIdle
    /\ InitDataIdle
    /\ InitIntIdle
    /\ InitSessIdle

SpecCls == InitSpecCls /\ [][NextCls]_vars

\* C7: classify always returns a ClassificationResult with a domain, a subsystem
\* and one to three patterns; with no keyword hit, a failed inference service and
\* an empty store answer the result is HIL_TESTING, VCU, [FUNCTIONAL_TEST].
C7_ClassifyTotalWithDefaults ==
    /\ cls_pc # "raised"
    /\ cls_pc = "returned" =>
          /\ cls_result.domain \in TestDomain
          /\ cls_result.subsystem \in TestSubsystem
          /\ Len(cls_result.test_patterns) \in 1..MaxPatterns
          /\ \A i \in DOMAIN cls_result.test_patterns : cls_result.test_patterns[i] \in TestPattern
          /\ (/\ cls_input.domain_hits = 0
              /\ cls_input.subsystem_hits = 0
              /\ cls_input.pattern_hits = 0
              /\ cls_ai = "failed"
              /\ cls_kb = "empty")
             => /\ cls_result.domain = "HIL_TESTING"
                /\ cls_result.subsystem = "VCU"
                /\ cls_result.test_patterns = <<"FUNCTIONAL_TEST">>

\* C18: the confidence never decreases from the rule-based phase through the
\* enhancement and the validation to the result, and the confidence of every
\* returned ClassificationResult lies in [0,1], whatever confidence the
\* inference service returns.
C18_ConfidenceMonotoneAndBounded ==
    /\ [][classification'.confidence >= classification.confidence]_vars
    /\ [](cls_pc = "returned" =>
            /\ cls_result.confidence >= classification.confidence
            /\ cls_result.confidence \in 0..ConfidenceScale)

\* The place of a phase in the pipeline; leaving by an exception is last.
PhaseRank(pc) ==
    CASE pc = "start" -> 0
      [] pc = "rule_scored" -> 1
      [] pc = "enhanced" -> 2
      [] pc = "validated" -> 3
      [] pc = "returned" -> 4
      [] OTHER -> 5

CallOnly == UNCHANGED <<kbVars, usageVars, genVars, wfVars, clsVars, batchVars,
        searchVars,
        selVars,
        covVars,
        qualVars,
        anVars,
        stopVars,
        dataVars,
        intVars,
        sessVars>>

SendRequestStep == SendRequest /\ CallOnly

ReceiveResponseStep == (\E response \in Responses : ReceiveResponse(response)) /\ CallOnly

WakeUpStep == WakeUp /\ CallOnly

NextCall == SendRequestStep \/ ReceiveResponseStep \/ WakeUpStep

InitSpecCall == InitKB /\ InitUsageIdle /\ InitGenIdle /\ InitWF /\ InitClsIdle /\ InitCall /\ InitBatchIdle
    /\ InitSearchIdle
    /\ InitSelIdle
    /\ InitCovIdle
    /\ InitQualIdle
    /\ InitAnIdle
    /\ InitStopIdle
    /\ InitDataIdle
    /\ InitIntIdle
    /\ InitSessIdle

SpecCall == InitSpecCall /\ [][NextCall]_vars

FairSpecCall == SpecCall /\ WF_vars(NextCall)

CallTerminated == call_pc \in {"returned", "raised"}

RetryBounds ==
    /\ requests_sent <= MaxRetries
    /\ Len(responses) <= requests_sent
    /\ \A i \in DOMAIN responses :
          /\ responses[i] = "200" =>
                i = Len(responses) /\ requests_sent = i /\ call_pc = "returned" /\ call_outcome = "data"
          /\ responses[i] = "429" => waits[i] = 2 ^ (i - 1)
          /\ responses[i] \in {"401", "403"} =>
                /\ i = Len(responses) /\ requests_sent = i
                /\ call_pc = "raised" /\ call_outcome = "AuthenticationError" /\ waits[i] = 0
    /\ (CallTerminated /\ \A i \in DOMAIN responses : responses[i] = "429") =>
          call_pc = "raised" /\ call_outcome = "DeepSeekError" /\ requests_sent = MaxRetries
    /\ call_pc \in {"send", "awaiting"} => requests_sent - Len(responses) = (IF call_pc = "send" THEN 0 ELSE 1)
    /\ call_pc = "awaiting" => \A i \in DOMAIN responses : waits[i] > 0

BatchOnly == UNCHANGED <<kbVars, usageVars, genVars, wfVars, clsVars, callVars,
        searchVars,
        selVars,
        covVars,
        qualVars,
        anVars,
        stopVars,
        dataVars,
        intVars,
        sessVars>>

AcquireAndCallStep == (\E p \in PromptIds : AcquireAndCall(p)) /\ BatchOnly

CallReturnsStep == (\E p \in PromptIds : CallReturns(p)) /\ BatchOnly

CallRaisesStep == (\E p \in PromptIds : CallRaises(p)) /\ BatchOnly

GatherReturnsStep == GatherReturns /\ BatchOnly

NextBatch == AcquireAndCallStep \/ CallReturnsStep \/ CallRaisesStep \/ GatherReturnsStep

InitSpecBatch ==
    InitKB /\ InitUsageIdle /\ InitGenIdle /\ InitWF /\ InitClsIdle /\ InitCallIdle /\ InitBatch
    /\ InitSearchIdle
    /\ InitSelIdle
    /\ InitCovIdle
    /\ InitQualIdle
    /\ InitAnIdle
    /\ InitStopIdle
    /\ InitDataIdle
    /\ InitIntIdle
    /\ InitSessIdle

SpecBatch == InitSpecBatch /\ [][NextBatch]_vars

FairSpecBatch == SpecBatch /\ WF_vars(NextBatch)

InFlight == {p \in PromptIds : prompt_pc[p] = "inflight"}

BatchBounds ==
    /\ Cardinality(InFlight) <= MaxConcurrent
    /\ semaphore = MaxConcurrent - Cardinality(InFlight)
    /\ \A p \in PromptIds : (p \in Range(issued)) = (prompt_pc[p] \in {"inflight", "ok", "failed"})
    /\ batch_pc = "returned" =>
          /\ Len(processed_results) = prompts
          /\ \A p \in 1..prompts :
                /\ prompt_pc[p] \in {"ok", "failed"}
                /\ processed_results[p].index = p - 1
                /\ (processed_results[p].kind = "error") = (prompt_pc[p] = "failed")

\* C10: the chat_completion calls in flight never exceed max_concurrent, every
\* prompt is eventually issued, and whichever calls fail, every other prompt
\* completes and the batch returns one entry for each prompt.
C10_BatchBoundedAndIsolated ==
    /\ []BatchBounds
    /\ \A p \in PromptIds : (prompt_pc[p] = "pending") ~> (p \in Range(issued))
    /\ \A p \in PromptIds : (prompt_pc[p] = "pending") ~> (prompt_pc[p] \in {"ok", "failed"})
    /\ <>(batch_pc = "returned")

\* More prompts than slots: the first call issued failed, a later one, issued
\* after it, succeeded, and the batch returned an entry for each prompt.
C10_Witness ==
    /\ batch_pc = "returned"
    /\ prompts = MaxPrompts
    /\ prompts > MaxConcurrent
    /\ prompt_pc[issued[1]] = "failed"
    /\ prompt_pc[issued[Len(issued)]] = "ok"
    /\ processed_results[issued[1]].kind = "error"

(***************************************************************************)
(* Specification of one search_knowledge call.                             *)
(***************************************************************************)
SearchOnly == UNCHANGED <<kbVars, usageVars, genVars, wfVars, clsVars, callVars, batchVars,
        selVars,
        covVars,
        qualVars,
        anVars,
        stopVars,
        dataVars,
        intVars,
        sessVars>>

EncodeQueryStep == EncodeQuery /\ SearchOnly

SearchCollectionStep == SearchCollection /\ SearchOnly

SortAndReturnStep == SortAndReturn /\ SearchOnly

NextSearch == EncodeQueryStep \/ SearchCollectionStep \/ SortAndReturnStep

InitSpecSearch ==
    InitKB /\ InitUsageIdle /\ InitGenIdle /\ InitWF /\ InitClsIdle /\ InitCallIdle /\ InitBatchIdle
    /\ InitSearch
    /\ InitSelIdle
    /\ InitCovIdle
    /\ InitQualIdle
    /\ InitAnIdle
    /\ InitStopIdle
    /\ InitDataIdle
    /\ InitIntIdle
    /\ InitSessIdle

SpecSearch == InitSpecSearch /\ [][NextSearch]_vars

\* The hits of the collections whose lookup did not fail, in collection order.
RECURSIVE MergedHits(_, _)
MergedHits(answers, n) ==
    IF n = 0 THEN <<>>
    ELSE MergedHits(answers, n - 1)
         \o (IF answers[n].lookup = "ok" THEN HitItems(n, answers[n].distances) ELSE <<>>)

\* C11: search_knowledge returns at most top_k items by non-increasing
\* confidence (1 - distance): the top_k of the merged hits of all searched
\* collections, a collection whose lookup fails contributing nothing.
C11_SearchReturnsTopKOfMergedHits ==
    search_pc = "returned" =>
        /\ Len(results) <= search_input.top_k
        /\ \A i \in 1..(Len(results) - 1) : results[i].confidence >= results[i + 1].confidence
        /\ results = FirstN(SortByConfidence(MergedHits(search_input.answers, SearchedCollections)),
                            search_input.top_k)

\* C12: on the hash-based fallback embedder, whose encode returns a plain list,
\* search_knowledge does not fail: it returns a list instead of raising.
C12_FallbackEmbedderDoesNotFail ==
    search_input.embedder = "fallback" => search_pc # "raised"

(***************************************************************************)
(* Specification of select_template: two calls for each template set.      *)
(***************************************************************************)
SelOnly == UNCHANGED <<kbVars, usageVars, genVars, wfVars, clsVars, callVars, batchVars,
                      searchVars,
        covVars,
        qualVars,
        anVars,
        stopVars,
        dataVars,
        intVars,
        sessVars>>

FilterByClassificationStep == FilterByClassification /\ SelOnly

ScoreCandidatesStep == ScoreCandidates /\ SelOnly

SortAndSelectStep == SortAndSelect /\ SelOnly

SelectAgainStep == SelectAgain /\ SelOnly

NextSel ==
    FilterByClassificationStep \/ ScoreCandidatesStep \/ SortAndSelectStep \/ SelectAgainStep

InitSpecSel ==
    InitKB /\ InitUsageIdle /\ InitGenIdle /\ InitWF /\ InitClsIdle /\ InitCallIdle /\ InitBatchIdle
    /\ InitSearchIdle /\ InitSel
    /\ InitCovIdle
    /\ InitQualIdle
    /\ InitAnIdle
    /\ InitStopIdle
    /\ InitDataIdle
    /\ InitIntIdle
    /\ InitSessIdle

SpecSel == InitSpecSel /\ [][NextSel]_vars

Matches(i) == sel_input[i].domain \/ sel_input[i].subsystem \/ sel_input[i].pattern

\* The candidates the claim names: the matching templates, or all of them.
Candidates ==
    IF \E i \in DOMAIN sel_input : Matches(i)
    THEN {i \in DOMAIN sel_input : Matches(i)}
    ELSE DOMAIN sel_input

\* Template i ranks before template j: higher score, or equal score and earlier.
RanksBefore(i, j) ==
    \/ TemplateScore(sel_input[i]) > TemplateScore(sel_input[j])
    \/ TemplateScore(sel_input[i]) = TemplateScore(sel_input[j]) /\ i < j

\* C13: over a non-empty template set select_template returns a template: the
\* first in template order among the candidates of maximal score; the
\* alternatives are the next up to 3 candidates by descending score, ties in
\* template order, without the best; a repeated call returns the same.
C13_SelectTemplateBestAndAlternatives ==
    sel_pc = "done" =>
        LET best == sel_result.template
            alts == sel_result.alternatives
            ranked == <<best>> \o alts
        IN  /\ best \in Candidates
            /\ sel_result.score = TemplateScore(sel_input[best])
            /\ \A i \in Candidates \ {best} : RanksBefore(best, i)
            /\ Len(alts) = Min(MaxAlternatives, Cardinality(Candidates) - 1)
            /\ \A k \in DOMAIN alts : alts[k] \in Candidates \ {best}
            /\ \A k \in 1..(Len(ranked) - 1) : RanksBefore(ranked[k], ranked[k + 1])
            /\ \A i \in Candidates \ Range(ranked) : RanksBefore(ranked[Len(ranked)], i)
            /\ sel_previous # NoSelection => sel_previous = sel_result

\* A second call over five candidates, two of them tied for the best score and
\* more than three left for the alternatives.
C13_Witness ==
    /\ sel_pc = "done"
    /\ sel_previous # NoSelection
    /\ Cardinality(Candidates) = 5
    /\ Len(sel_result.alternatives) = MaxAlternatives
    /\ sel_result.template = 2
    /\ TemplateScore(sel_input[4]) = sel_result.score
    /\ sel_result.alternatives[1] = 4

(***************************************************************************)
(* Specification of the coverage metric: calculated, evaluated by the      *)
(* quality evaluation, and calculated again after a verification step is   *)
(* appended.                                                               *)
(***************************************************************************)
CovOnly == UNCHANGED <<kbVars, usageVars, genVars, wfVars, clsVars, callVars, batchVars,
                      searchVars, selVars,
        qualVars,
        anVars,
        stopVars,
        dataVars,
        intVars,
        sessVars>>

CalculateCoverageStep == CalculateCoverage /\ CovOnly

EvaluateCoverageStep == EvaluateCoverage /\ CovOnly

AppendVerificationStepStep == (\E i \in 1..(MaxCovConstraints + MaxCheckedConstraints) :
                                   AppendVerificationStep(i)) /\ CovOnly

NextCov == CalculateCoverageStep \/ EvaluateCoverageStep \/ AppendVerificationStepStep

InitSpecCov ==
    InitKB /\ InitUsageIdle /\ InitGenIdle /\ InitWF /\ InitClsIdle /\ InitCallIdle /\ InitBatchIdle
    /\ InitSearchIdle /\ InitSelIdle /\ InitCov
    /\ InitQualIdle
    /\ InitAnIdle
    /\ InitStopIdle
    /\ InitDataIdle
    /\ InitIntIdle
    /\ InitSessIdle

SpecCov == InitSpecCov /\ [][NextCov]_vars

\* C14: the constraint_coverage sub-score of the quality evaluation is the
\* (rounded) total_coverage of calculate_constraint_coverage over the same
\* steps and constraints, is 1.0 for an empty constraint list and lies in [0,1].
C14_SubScoreIsTotalCoverage ==
    cov_pc = "evaluated" =>
        /\ sub_score \in RoundTo2(cov_result.total_coverage.num, cov_result.total_coverage.den)
        /\ cov_constraints = <<>> => sub_score = 100
        /\ sub_score \in 0..100

QualOnly == UNCHANGED <<kbVars, usageVars, genVars, wfVars, clsVars, callVars, batchVars,
                       searchVars, selVars, covVars,
        anVars,
        stopVars,
        dataVars,
        intVars,
        sessVars>>

EvaluateSubScoreStep == (\E metric \in Metrics : EvaluateSubScore(metric)) /\ QualOnly

ScoringRaisesStep == (\E metric \in Metrics : ScoringRaises(metric)) /\ QualOnly

CombineScoresStep == CombineScores /\ QualOnly

NextQual == EvaluateSubScoreStep \/ ScoringRaisesStep \/ CombineScoresStep

InitSpecQual ==
    InitKB /\ InitUsageIdle /\ InitGenIdle /\ InitWF /\ InitClsIdle /\ InitCallIdle /\ InitBatchIdle
    /\ InitSearchIdle /\ InitSelIdle /\ InitCovIdle /\ InitQual
    /\ InitAnIdle
    /\ InitStopIdle
    /\ InitDataIdle
    /\ InitIntIdle
    /\ InitSessIdle

SpecQual == InitSpecQual /\ [][NextQual]_vars

\* C16: every sub-score of the breakdown lies in [0,1]; when the five are
\* computed, quality_score is 0.25*completeness + 0.25*executability +
\* 0.20*constraint_coverage + 0.20*standard_compliance + 0.10*explanation_quality
\* rounded to two decimals; quality_score lies in [0,1].
C16_QualityScoreIsWeightedSum ==
    /\ \A m \in DOMAIN breakdown : breakdown[m] \in 0..100
    /\ quality_score \in 0..100
    /\ (qual_pc = "returned" /\ DOMAIN breakdown = Metrics) =>
           quality_score \in RoundTo2(25 * breakdown["completeness"]
                                      + 25 * breakdown["executability"]
                                      + 20 * breakdown["constraint_coverage"]
                                      + 20 * breakdown["standard_compliance"]
                                      + 10 * breakdown["explanation_quality"], 10000)

\* The five sub-scores are computed for a test case whose standard is mentioned
\* with all its keywords (the sum of the compliance exceeds 1 before the cap).
C16_Witness ==
    /\ qual_pc = "returned"
    /\ DOMAIN breakdown = Metrics
    /\ qual_input.classification.standards
           = <<[name |-> "iso 26262", mentioned |-> TRUE, hits |-> 4]>>
    /\ breakdown["standard_compliance"] = 100
    /\ breakdown["completeness"] \in 1..99
    /\ Len(qual_input.spec_analysis.extracted_constraints) > MaxCheckedConstraints
    /\ quality_score \in 1..99

\* C17: _evaluate_quality returns the five sub-scores in the breakdown and a
\* quality_score that is their weighted sum, for every test case, explanations,
\* classification and spec analysis, missing or empty ones included.
C17_ScoringNeverAborts ==
    qual_pc = "returned" =>
        /\ DOMAIN breakdown = Metrics
        /\ ~qual_error
        /\ quality_score \in RoundTo2(WeightedSum(breakdown, DOMAIN breakdown), 10000)

(***************************************************************************)
(* Specification of SpecificationAnalyzer.analyze.                         *)
(***************************************************************************)
AnOnly == UNCHANGED <<kbVars, usageVars, genVars, wfVars, clsVars, callVars, batchVars,
                     searchVars, selVars, covVars, qualVars,
        stopVars,
        dataVars,
        intVars,
        sessVars>>

AnalyzeRequirementStep == (\E answer \in RequirementAnswers : AnalyzeRequirement(answer)) /\ AnOnly

ExtractConstraintsStep == (\E answer \in ExtractionAnswers : ExtractConstraints(answer)) /\ AnOnly

AssessRisksStep == AssessRisks /\ AnOnly

NextAn == AnalyzeRequirementStep \/ ExtractConstraintsStep \/ AssessRisksStep

InitSpecAn ==
    InitKB /\ InitUsageIdle /\ InitGenIdle /\ InitWF /\ InitClsIdle /\ InitCallIdle /\ InitBatchIdle
    /\ InitSearchIdle /\ InitSelIdle /\ InitCovIdle /\ InitQualIdle /\ InitAn
    /\ InitStopIdle
    /\ InitDataIdle
    /\ InitIntIdle
    /\ InitSessIdle

SpecAn == InitSpecAn /\ [][NextAn]_vars

\* C19: no value outside the enumerations reaches the data model: a
\* ClassificationResult has a domain, a subsystem and patterns of the enums, and
\* every Constraint of the specification analysis has a type among performance,
\* safety, reliability, environmental, compliance, other and a priority among
\* high, medium, low, whatever the inference service returns.
C19_OnlyEnumValuesReachTheDataModel ==
    /\ cls_pc = "returned" =>
          /\ cls_result.domain \in TestDomain
          /\ cls_result.subsystem \in TestSubsystem
          /\ \A i \in DOMAIN cls_result.test_patterns : cls_result.test_patterns[i] \in TestPattern
    /\ \A i \in DOMAIN all_constraints :
          /\ all_constraints[i].type \in ConstraintTypeNames
          /\ all_constraints[i].priority \in PriorityNames

\* C21: the constraint list of the extraction holds no two constraints of the
\* same content, whichever sources produced them, and its ids are pairwise
\* distinct.
C21_ConstraintsDeduplicated ==
    an_pc = "extracted" =>
        \A i, j \in DOMAIN all_constraints :
            i # j => /\ all_constraints[i].content # all_constraints[j].content
                     /\ all_constraints[i].id # all_constraints[j].id

\* C20: whatever the inference service answers (a call error, a text that is
\* not JSON, JSON of another shape), the stage that called goes on with its
\* defaults, and the analysis does not raise because of the answer.
C20_ServiceOutcomeNeverFailsTheRequest ==
    /\ an_raised_by # "response"
    /\ an_pc \in {"analyzed", "extracted"} => requirement_analysis.shape = "requested"

(***************************************************************************)
(* Specification of the workflow with cancellation of handler tasks and    *)
(* stop().  Fairness: the event loop runs the handlers, and a join whose   *)
(* condition holds returns.                                                *)
(***************************************************************************)
CancelOnly == UNCHANGED <<kbVars, usageVars, genVars, clsVars, callVars, batchVars,
                         searchVars, selVars, covVars, qualVars, anVars,
        dataVars,
        intVars,
        sessVars>>

CancelHandlerStep == (\E h \in HandlerIds : CancelHandler(h)) /\ CancelOnly

StopBeginsStep == StopBegins /\ CancelOnly

StopReturnsStep == StopReturns /\ CancelOnly

NextCancel ==
    \/ StartStep
    \/ SubmitRequestStep
    \/ HandlerGetStep
    \/ StagesPassStep
    \/ StageRaisesStep
    \/ HandlerNotifiedStep
    \/ CancelHandlerStep
    \/ StopBeginsStep
    \/ StopReturnsStep

InitSpecCancel ==
    InitKB /\ InitUsageIdle /\ InitGenIdle /\ InitWF /\ InitClsIdle /\ InitCallIdle /\ InitBatchIdle
    /\ InitSearchIdle /\ InitSelIdle /\ InitCovIdle /\ InitQualIdle /\ InitAnIdle /\ InitStopIdle
    /\ InitDataIdle
    /\ InitIntIdle
    /\ InitSessIdle

SpecCancel == InitSpecCancel /\ [][NextCancel]_vars

FairSpecCancel == SpecCancel /\ WF_vars(HandlersRun) /\ WF_vars(StopReturnsStep)

\* C22: a handler task cancelled while it processes a request does not block
\* the queue: the requests that wait in the queue are taken by the remaining
\* handlers, and stop(), which waits for the queue to be joined, returns.
C22_CancellationDoesNotBlockTheQueue ==
    /\ [](task_queue # <<>> /\ task_handlers # {} => <>(task_queue = <<>>))
    /\ (stop_pc = "joining") ~> (stop_pc = "returned")

(***************************************************************************)
(* Specification of step data generation: two runs on one input.           *)
(***************************************************************************)
DataOnly == UNCHANGED <<kbVars, usageVars, genVars, wfVars, clsVars, callVars, batchVars,
                       searchVars, selVars, covVars, qualVars, anVars, stopVars,
        intVars,
        sessVars>>

RunGenerateStepDataStep == RunGenerateStepData /\ DataOnly

NextData == RunGenerateStepDataStep

InitSpecData ==
    InitKB /\ InitUsageIdle /\ InitGenIdle /\ InitWF /\ InitClsIdle /\ InitCallIdle /\ InitBatchIdle
    /\ InitSearchIdle /\ InitSelIdle /\ InitCovIdle /\ InitQualIdle /\ InitAnIdle /\ InitStopIdle
    /\ InitData
    /\ InitIntIdle
    /\ InitSessIdle

SpecData == InitSpecData /\ [][NextData]_vars

\* The normal values of a returned dict are the midpoints of their ranges and
\* its boundary value is one of the declared boundary values.
ValuesAsDeclared(input, data) ==
    /\ input.step_type = "setup" =>
          /\ data.environment.temperature = Midpoint(data_generation_rules.temperature.normal_range)
          /\ data.environment.voltage = Midpoint(data_generation_rules.voltage.normal_range)
    /\ input.step_type \in {"verification", "delay"}
         \/ (input.step_type = "stimulus" /\ (input.action.signal \/ input.action.fault)) =>
          data.duration = Midpoint(data_generation_rules.time.normal_range)
    /\ input.step_type = "stimulus" /\ input.action.signal =>
          data.signal_value \in data_generation_rules.voltage.boundary_values

\* C23: step data are reproducible: two runs of step data generation on the
\* same step type and action return the same data, in which every normal
\* value is the midpoint of its declared range and every boundary value is
\* one of the declared values.
C23_StepDataReproducible ==
    data_pc = "done" =>
        /\ \A i \in DOMAIN data_runs : ~data_runs[i].raised
        /\ data_runs[1] = data_runs[2]
        /\ \A i \in DOMAIN data_runs : ValuesAsDeclared(data_input, data_runs[i].value)

(***************************************************************************)
(* Specification of integrate called on its own.                           *)
(***************************************************************************)
IntOnly == UNCHANGED <<kbVars, usageVars, genVars, wfVars, clsVars, callVars, batchVars,
                      searchVars, selVars, covVars, qualVars, anVars, stopVars, dataVars,
        sessVars>>

RunIntegrateStep == RunIntegrate /\ IntOnly

NextInt == RunIntegrateStep

InitSpecInt ==
    InitKB /\ InitUsageIdle /\ InitGenIdle /\ InitWF /\ InitClsIdle /\ InitCallIdle /\ InitBatchIdle
    /\ InitSearchIdle /\ InitSelIdle /\ InitCovIdle /\ InitQualIdle /\ InitAnIdle /\ InitStopIdle
    /\ InitDataIdle /\ InitInt
    /\ InitSessIdle

SpecInt == InitSpecInt /\ [][NextInt]_vars

\* C25: for any input step sequence in order and any constraint list, the
\* sequence integrate returns has step_number equal to the list position for
\* every step, old and inserted, and still has all setup steps before the
\* steps that are neither setup nor cleanup, which are before all cleanup
\* steps.
C25_IntegrateKeepsNumberingAndOrder ==
    int_pc = "done" => CanonicalSteps(int_result)

\* The constraints for which a rule of their type matches.
MatchingConstraints(constraints) ==
    {i \in DOMAIN constraints : constraints[i].type \in MappingRuleTypes /\ constraints[i].matches}

StepTypesOf(steps) == [i \in DOMAIN steps |-> steps[i].step_type]

\* The place the step is said to go to: after the last verification step, else
\* after the last stimulus step, else the end.
LastOfType(types, step_type) ==
    CHOOSE i \in DOMAIN types : types[i] = step_type /\ \A j \in DOMAIN types : types[j] = step_type => j <= i

InsertAfterLast(types) ==
    LET at == IF \E i \in DOMAIN types : types[i] = "verification" THEN LastOfType(types, "verification")
              ELSE IF \E i \in DOMAIN types : types[i] = "stimulus" THEN LastOfType(types, "stimulus")
              ELSE Len(types)
    IN  SubSeq(types, 1, at) \o <<"verification">> \o SubSeq(types, at + 1, Len(types))

RECURSIVE InsertTimes(_, _)
InsertTimes(types, n) == IF n = 0 THEN types ELSE InsertTimes(InsertAfterLast(types), n - 1)

\* C26: each synthesized verification step is inserted immediately after the
\* last verification step of the current sequence; if the sequence has no
\* verification step, immediately after its last stimulus step; if it has
\* neither, at the end of the sequence.
C26_InsertedAfterLastVerificationOrStimulus ==
    int_pc = "done" =>
        StepTypesOf(int_result)
          = InsertTimes(StepTypesOf(int_input.steps),
                        Cardinality(MatchingConstraints(int_input.constraints)))

\* The steps of the result that are steps of the input, in result order.
InputStepsIn(result, steps) == SelectSeq(result, LAMBDA s : s.uid \in {steps[i].uid : i \in DOMAIN steps})

WithoutNumber(steps) == [i \in DOMAIN steps |-> [steps[i] EXCEPT !.step_number = 0]]

\* C27: integrate adds exactly one verification step for each constraint whose
\* content matches a rule of its type and none for any other constraint, and
\* the steps of the input are in the result in the same relative order with
\* every field except step_number unchanged.
C27_OneStepPerMatchingConstraint ==
    int_pc = "done" =>
        /\ Len(int_result)
             = Len(int_input.steps) + Cardinality(MatchingConstraints(int_input.constraints))
        /\ WithoutNumber(InputStepsIn(int_result, int_input.steps)) = WithoutNumber(int_input.steps)
        /\ \A i \in DOMAIN int_result :
              int_result[i].uid \notin {int_input.steps[k].uid : k \in DOMAIN int_input.steps}
                 => int_result[i].step_type = "verification" /\ int_result[i].kind = "dict"

\* Three dict steps, a constraint that a rule matches and one that none matches:
\* one step was added.
C27_Witness ==
    /\ int_pc = "done"
    /\ Len(int_input.steps) = 3
    /\ int_input.steps[1].kind = "dict"
    /\ Len(int_input.constraints) = 2
    /\ Cardinality(MatchingConstraints(int_input.constraints)) = 1
    /\ \E i \in DOMAIN int_input.constraints :
          int_input.constraints[i].type \in MappingRuleTypes /\ ~int_input.constraints[i].matches
    /\ Len(int_result) = 4

\* The steps of a plan whose step_type is a value of TestStepType.
ValidSteps(plan) == SelectSeq(plan, LAMBDA t : t \in TestStepType)

\* C29: when the inference service returns a step plan in which some steps
\* carry an invalid step_type, only those steps are rejected: the steps with
\* a valid step_type are the generated sequence, and the request continues.
C29_OnlyInvalidStepsRejected ==
    (/\ gen_pc \in {"steps", "integrated", "done"}
     /\ gen_input.template # "step_templates"
     /\ ~gen_input.failed
     /\ \E i \in DOMAIN gen_input.plan : gen_input.plan[i] \notin TestStepType
     /\ \E i \in DOMAIN gen_input.plan : gen_input.plan[i] \in TestStepType) =>
        StepTypesOf(test_steps)
          = StepTypesOf(OptimizeStepSequence(StepsOfKind(ValidSteps(gen_input.plan), "object")))

(***************************************************************************)
(* Specification of the client's session under its two holders.            *)
(***************************************************************************)
SessOnly == UNCHANGED <<kbVars, usageVars, genVars, wfVars, clsVars, callVars, batchVars,
                       searchVars, selVars, covVars, qualVars, anVars, stopVars, dataVars,
                       intVars>>

AenterStep == Aenter /\ SessOnly

ChatCompletionInBodyStep == (\E outcome \in PostOutcomes : ChatCompletionInBody(outcome)) /\ SessOnly

AexitStep == Aexit /\ SessOnly

WorkflowInferenceCallStep == (\E outcome \in PostOutcomes : WorkflowInferenceCall(outcome)) /\ SessOnly

NextSess == AenterStep \/ ChatCompletionInBodyStep \/ AexitStep \/ WorkflowInferenceCallStep

InitSpecSess ==
    InitKB /\ InitUsageIdle /\ InitGenIdle /\ InitWF /\ InitClsIdle /\ InitCallIdle /\ InitBatchIdle
    /\ InitSearchIdle /\ InitSelIdle /\ InitCovIdle /\ InitQualIdle /\ InitAnIdle /\ InitStopIdle
    /\ InitDataIdle /\ InitIntIdle /\ InitSess

SpecSess == InitSpecSess /\ [][NextSess]_vars

\* C30: every chat_completion request is sent on an open HTTP session: in the
\* workflow the session has been connected before the first inference-service
\* call of any request, and no call is made on a session that was never
\* opened or has been closed.
C30_EveryCallOnAnOpenSession ==
    \A i \in DOMAIN call_log : call_log[i].session = "open"

====
